---- MODULE Spec2Model ----
(***************************************************************************)
(* A model of hatlib: the five-phase CallableFunc lifecycle                *)
(* (callable_func.py, host_loader.py), the Python-timed benchmark loop     *)
(* (benchmark_hat_package.py), the parameter descriptor ArgInfo            *)
(* (arg_info.py), the argument value ArgValue (arg_value.py) and the       *)
(* argument expansion and verification of FunctionInfo (function_info.py). *)
(***************************************************************************)
EXTENDS Integers, Sequences, FiniteSets, TLC

(***************************************************************************)
(* Bounds of the model.                                                    *)
(***************************************************************************)
MaxCalls == 2
MaxBatches == 3
MaxIters == 2
MaxBatchSize == 2
MaxMinTime == 1
MaxTiming == 2
MaxTimingIters == 2
MaxInputSets == 2
MaxStars == 3
MaxRank == 2
MaxDim == 2
MaxArgs == 3
MaxDeviceParams == 2
MaxNameLen == 2
MaxFunctions == 2

VARIABLES
    \* ---- CallableFunc lifecycle (callable_func.py, host_loader.py)
    backend,              \* which implementation of the abstract phases
    host,                 \* HostCallableFunc attributes set by init_runtime
    calls,                \* entry points started on this instance
    pc,                   \* position inside __call__ / benchmark
    mode,                 \* "call" or "benchmark"
    params,               \* iters, batch_size, min_time_in_sec
    trace,                \* phase invocations of the current entry point
    pending,              \* exception in flight through the finally blocks
    timing,               \* local `timing` of __call__
    batch_timings_ms,     \* local of benchmark
    iterations,           \* local of benchmark
    result,               \* what the entry point delivered to its caller
    \* ---- Python-timed loop of Benchmark._profile (benchmark_hat_package.py)
    pf,                   \* locals of _profile, its clock and its result
    \* ---- one ArgInfo built from one parameter record (arg_info.py)
    ai,                   \* the record, its descriptor, an ArgValue made from it
    \* ---- one loaded function and a call of it (function_info.py, hat_package.py)
    fn,                   \* signature, descriptors, argument lists, outcome
    \* ---- one value verified against one descriptor (arg_value.py, function_info.py)
    vf,                   \* the descriptor, the value, the outcome of verify
    \* ---- generate_arg_values called on the descriptors of one function (arg_value.py)
    gv,                   \* descriptors, the default map, the values generated
    \* ---- one device function called through the CUDA and the ROCm loader
    dv,                   \* a device function of a package: its loading and its call
    \* ---- one AttributeDict of loaded functions and a lookup in it
    ad,                   \* the keys in insertion order, the key asked, the result
    \* ---- HATFile objects: construction, function tables, Serialize / Deserialize
    hf                    \* the files constructed, the shared default table, the file read back

lcVars == <<backend, host, calls, pc, mode, params, trace, pending, timing,
            batch_timings_ms, iterations, result>>

vars == <<lcVars, pf, ai, fn, vf, gv, dv, ad, hf>>

RECURSIVE SumSeq(_)
\* Python sum() over a list of numbers.
SumSeq(s) == IF s = <<>> THEN 0 ELSE Head(s) + SumSeq(Tail(s))

(***************************************************************************)
(* CallableFunc                                                            *)
(***************************************************************************)
NoErr == "none"

\* One phase invocation: which phase, with which benchmark flag and iters,
\* the error it raised (NoErr if it returned) and the value it returned.
Ev(phase, bm, it, err, val) ==
    [phase |-> phase, benchmark |-> bm, iters |-> it, err |-> err, value |-> val]

NoResult == [kind |-> "none", err |-> NoErr, timing |-> 0, mean |-> <<0, 1>>, timings |-> <<>>]

\* The values run_batch can report, in milliseconds.
TimingValues == {500 * k : k \in 0 .. MaxTiming}

\* HostCallableFunc.__init__ sets none of the attributes cleanup_runtime reads.
HostFresh == [native_profiler_srcfile |-> FALSE, native_profiler_hatfile |-> FALSE, target |-> FALSE]

\* The places where HostCallableFunc.init_runtime can stop, with the
\* attributes assigned up to each of them.
HostInitRuntimeOutcomes(h) ==
    { [err |-> "OSError",            \* os.getcwd() fails, nothing assigned yet
       host |-> h],
      [err |-> "OSError",            \* open(native_profiler_srcfile, "w") fails
       host |-> [h EXCEPT !.native_profiler_srcfile = TRUE, !.native_profiler_hatfile = TRUE]],
      [err |-> "BuildError",         \* generate_and_run_cmake_file fails
       host |-> [h EXCEPT !.native_profiler_srcfile = TRUE, !.native_profiler_hatfile = TRUE]],
      [err |-> "LoadError",          \* Serialize()/load() of the timer package fails
       host |-> [native_profiler_srcfile |-> TRUE, native_profiler_hatfile |-> TRUE, target |-> TRUE]],
      [err |-> NoErr,
       host |-> [native_profiler_srcfile |-> TRUE, native_profiler_hatfile |-> TRUE, target |-> TRUE]] }

\* HostCallableFunc.cleanup_runtime first evaluates
\* `working_dir or os.getcwd()`, then reads self.native_profiler_srcfile,
\* self.native_profiler_hatfile and self.target and removes the files.
\* os.getcwd() and os.remove can raise OSError whatever was assigned;
\* reading an attribute that was never assigned raises AttributeError.
HostCleanupRuntimeErrs(h) ==
    {"OSError"} \cup
    (IF ~h.native_profiler_srcfile \/ ~h.native_profiler_hatfile \/ ~h.target
     THEN {"AttributeError"} ELSE {NoErr})

InitRuntimeOutcomes(b, h) ==
    IF b = "host" THEN HostInitRuntimeOutcomes(h)
    ELSE { [err |-> e, host |-> h] : e \in {NoErr, "InitRuntimeError"} }

\* init_batch: HostCallableFunc verifies the arguments, args[0] of a
\* benchmark (IndexError without an input set), and runs the warm-up calls.
\* verify exits on a mismatch (SystemExit) and raises AttributeError for a
\* value without verify() and NotImplementedError for a pointer level
\* above 2; a warm-up call raises TypeError when as_cargs cannot convert
\* an argument.
InitBatchErrs(b, benchmark) ==
    IF b = "host"
    THEN {NoErr, "SystemExit", "AttributeError", "NotImplementedError", "TypeError"}
         \cup (IF benchmark THEN {"IndexError"} ELSE {})
    ELSE {NoErr, "AllocationFailure"}

RunBatchErrs(b) == IF b = "host" THEN {NoErr, "NativeError"} ELSE {NoErr, "LaunchFailure"}

\* cleanup_batch: `pass` for the host backend.
CleanupBatchErrs(b) == IF b = "host" THEN {NoErr} ELSE {NoErr, "CleanupBatchError"}

CleanupRuntimeErrs(b, h) ==
    IF b = "host" THEN HostCleanupRuntimeErrs(h) ELSE {NoErr, "CleanupRuntimeError"}

\* iters passed to run_batch.
RunIters(m, p) == IF m = "call" THEN 1 ELSE p.iters

\* Mutant: one try/finally around both init phases.
AfterInitRuntime_OneTry(err) == IF err = NoErr THEN "init_batch" ELSE "cleanup_batch"

\* try: init_runtime ... finally: cleanup_runtime
AfterInitRuntime(err) == IF err = NoErr THEN "init_batch" ELSE "cleanup_runtime"

\* Mutant: run_batch is skipped.
AfterInitBatch_NoRun(err) == "cleanup_batch"

\* try: init_batch; run_batch ... finally: cleanup_batch
AfterInitBatch(err) == IF err = NoErr THEN "run_batch" ELSE "cleanup_batch"

\* Mutant: the loop has no exit.
BatchLoopDone_Never(timings, min_time_in_sec, batch_size) == FALSE

\* Mutant: the loop stops when either minimum is reached.
BatchLoopDone_Or(timings, min_time_in_sec, batch_size) ==
    SumSeq(timings) >= min_time_in_sec * 1000 \/ Len(timings) >= batch_size

\* The exit test of the batch loop of benchmark.
BatchLoopDone(timings, min_time_in_sec, batch_size) ==
    LET min_time_in_ms == min_time_in_sec * 1000
    IN  SumSeq(timings) >= min_time_in_ms /\ Len(timings) >= batch_size

\* An exception raised inside a finally block replaces the one in flight.
AfterCleanup(inflight, err) == IF err # NoErr THEN err ELSE inflight

LcInit ==
    /\ backend \in {"generic", "host"}
    /\ host = HostFresh
    /\ calls = 0
    /\ pc = "idle"
    /\ mode = "call"
    /\ params = [iters |-> 1, batch_size |-> 0, min_time_in_sec |-> 0]
    /\ trace = <<>>
    /\ pending = NoErr
    /\ timing = 0
    /\ batch_timings_ms = <<>>
    /\ iterations = 0
    /\ result = NoResult

\* The caller enters __call__.
Call ==
    /\ pc \in {"idle", "done"}
    /\ calls < MaxCalls
    /\ calls' = calls + 1
    /\ mode' = "call"
    /\ params' = [iters |-> 1, batch_size |-> 0, min_time_in_sec |-> 0]
    /\ pc' = "init_runtime"
    /\ trace' = <<>>
    /\ pending' = NoErr
    /\ timing' = 0
    /\ batch_timings_ms' = <<>>
    /\ iterations' = 0
    /\ result' = NoResult
    /\ UNCHANGED <<backend, host, pf, ai, fn, vf, gv, dv, ad, hf>>

\* The caller enters benchmark.
Benchmark ==
    /\ pc \in {"idle", "done"}
    /\ calls < MaxCalls
    /\ calls' = calls + 1
    /\ mode' = "benchmark"
    /\ \E it \in 0 .. MaxIters, bs \in 0 .. MaxBatchSize, mt \in 0 .. MaxMinTime :
          params' = [iters |-> it, batch_size |-> bs, min_time_in_sec |-> mt]
    /\ pc' = "init_runtime"
    /\ trace' = <<>>
    /\ pending' = NoErr
    /\ timing' = 0
    /\ batch_timings_ms' = <<>>
    /\ iterations' = 0
    /\ result' = NoResult
    /\ UNCHANGED <<backend, host, pf, ai, fn, vf, gv, dv, ad, hf>>

InitRuntime ==
    /\ pc = "init_runtime"
    /\ \E o \in InitRuntimeOutcomes(backend, host) :
          /\ host' = o.host
          /\ trace' = Append(trace, Ev("init_runtime", mode = "benchmark", 0, o.err, 0))
          /\ pending' = o.err
          /\ pc' = AfterInitRuntime(o.err)
    /\ UNCHANGED <<backend, calls, mode, params, timing, batch_timings_ms, iterations, result, pf, ai, fn, vf, gv, dv, ad, hf>>

InitBatch ==
    /\ pc = "init_batch"
    /\ \E e \in InitBatchErrs(backend, mode = "benchmark") :
          /\ trace' = Append(trace, Ev("init_batch", mode = "benchmark", 0, e, 0))
          /\ pending' = e
          /\ pc' = AfterInitBatch(e)
    /\ UNCHANGED <<backend, host, calls, mode, params, timing, batch_timings_ms, iterations, result, pf, ai, fn, vf, gv, dv, ad, hf>>

\* timing = self.run_batch(benchmark=False, iters=1, args=args)
RunBatchCall ==
    /\ pc = "run_batch"
    /\ mode = "call"
    /\ \E e \in RunBatchErrs(backend), t \in TimingValues :
          /\ trace' = Append(trace, Ev("run_batch", FALSE, RunIters(mode, params), e, t))
          /\ pending' = e
          /\ timing' = IF e = NoErr THEN t ELSE timing
          /\ e # NoErr => t = 0
    /\ pc' = "cleanup_batch"
    /\ UNCHANGED <<backend, host, calls, mode, params, batch_timings_ms, iterations, result, pf, ai, fn, vf, gv, dv, ad, hf>>

\* One turn of the `while True` loop of benchmark; after the loop the mean
\* is computed inside the inner try, so a division by zero is raised there.
RunBatchBenchmark ==
    /\ pc = "run_batch"
    /\ mode = "benchmark"
    /\ Len(batch_timings_ms) < MaxBatches
    /\ \E e \in RunBatchErrs(backend), t \in TimingValues :
          /\ e # NoErr => t = 0
          /\ trace' = Append(trace, Ev("run_batch", TRUE, RunIters(mode, params), e, t))
          /\ IF e # NoErr
             THEN /\ pending' = e
                  /\ pc' = "cleanup_batch"
                  /\ UNCHANGED <<batch_timings_ms, iterations>>
             ELSE LET timings == Append(batch_timings_ms, t)
                      its == iterations + params.iters
                  IN  /\ batch_timings_ms' = timings
                      /\ iterations' = its
                      /\ IF BatchLoopDone(timings, params.min_time_in_sec, params.batch_size)
                         THEN /\ pc' = "cleanup_batch"
                              /\ pending' = IF its = 0 THEN "ZeroDivisionError" ELSE NoErr
                         ELSE /\ pc' = "run_batch"
                              /\ pending' = NoErr
    /\ UNCHANGED <<backend, host, calls, mode, params, timing, result, pf, ai, fn, vf, gv, dv, ad, hf>>

CleanupBatch ==
    /\ pc = "cleanup_batch"
    /\ \E e \in CleanupBatchErrs(backend) :
          /\ trace' = Append(trace, Ev("cleanup_batch", mode = "benchmark", 0, e, 0))
          /\ pending' = AfterCleanup(pending, e)
    /\ pc' = "cleanup_runtime"
    /\ UNCHANGED <<backend, host, calls, mode, params, timing, batch_timings_ms, iterations, result, pf, ai, fn, vf, gv, dv, ad, hf>>

\* The outer finally block, then either the return statement or the
\* exception in flight reaches the caller.
CleanupRuntime ==
    /\ pc = "cleanup_runtime"
    /\ \E e \in CleanupRuntimeErrs(backend, host) :
          LET err == AfterCleanup(pending, e)
          IN  /\ trace' = Append(trace, Ev("cleanup_runtime", mode = "benchmark", 0, e, 0))
              /\ pending' = err
              /\ result' =
                    IF err # NoErr
                    THEN [NoResult EXCEPT !.kind = "raise", !.err = err]
                    ELSE IF mode = "call"
                    THEN [NoResult EXCEPT !.kind = "return", !.timing = timing]
                    ELSE [NoResult EXCEPT !.kind = "return",
                                          !.mean = <<SumSeq(batch_timings_ms), iterations>>,
                                          !.timings = batch_timings_ms]
    /\ pc' = "done"
    /\ UNCHANGED <<backend, host, calls, mode, params, timing, batch_timings_ms, iterations, pf, ai, fn, vf, gv, dv, ad, hf>>

LcNext ==
    \/ Call
    \/ Benchmark
    \/ InitRuntime
    \/ InitBatch
    \/ RunBatchCall
    \/ RunBatchBenchmark
    \/ CleanupBatch
    \/ CleanupRuntime

(***************************************************************************)
(* Benchmark._profile, the loop timed from Python (the function is not a   *)
(* CallableFunc).  The clock is perf_counter(), counted in milliseconds;   *)
(* min_time_in_sec is in seconds.                                          *)
(***************************************************************************)
PfOff ==
    [pc |-> "off", now |-> 0, i |-> 0, iterations |-> 0, batch_timings |-> <<>>,
     end_time |-> 0, start_time |-> 0, batch_start_time |-> 0, k |-> 0, ncalls |-> 0,
     used |-> <<>>,
     min_timing_iterations |-> 0, batch_size |-> 0, min_time_in_sec |-> 0,
     i_max |-> 1, time_in_ms |-> FALSE,
     kind |-> "none", mean |-> <<0, 1>>, timings |-> <<>>]

\* How long one benchmark_func(*input_sets[i]) call can take, in ms.
CallDurations == {500 * k : k \in 0 .. MaxTiming}

\* The exit test of the timing loop of _profile.
ProfileLoopDone(elapsed_ms, min_time_in_sec, nbatches, batch_size) ==
    elapsed_ms >= min_time_in_sec * 1000 \/ nbatches >= batch_size

\* `iterations = 1` before the timing loop.
ProfileIterationsStart == 1

\* elapsed_time / iterations, as the fraction <<numerator, denominator>> in
\* the unit asked for (ms if time_in_ms, else seconds).
ProfileMean(elapsed_ms, its, time_in_ms) ==
    IF time_in_ms THEN <<elapsed_ms, its>> ELSE <<elapsed_ms, its * 1000>>

\* batch timings in the unit asked for, each as a fraction.
ProfileTimings(timings_ms, time_in_ms) ==
    [j \in 1 .. Len(timings_ms) |->
        IF time_in_ms THEN <<timings_ms[j], 1>> ELSE <<timings_ms[j], 1000>>]

PfInit ==
    \E n \in 0 .. MaxTimingIters, bs \in 0 .. MaxBatchSize, mt \in 0 .. MaxMinTime,
       im \in 1 .. MaxInputSets, ms \in BOOLEAN :
        pf = [PfOff EXCEPT !.pc = "idle", !.min_timing_iterations = n, !.batch_size = bs,
                           !.min_time_in_sec = mt, !.i_max = im, !.time_in_ms = ms]

\* i = 0 ... start_time_secs = perf_counter()
ProfileStart ==
    /\ pf.pc = "idle"
    /\ pf' = [pf EXCEPT !.pc = "batch_start", !.i = 0, !.iterations = ProfileIterationsStart,
                        !.batch_timings = <<>>, !.end_time = pf.now, !.start_time = pf.now]
    /\ UNCHANGED <<lcVars, ai, fn, vf, gv, dv, ad, hf>>

\* batch_start_time_secs = perf_counter()
ProfileBatchStart ==
    /\ pf.pc = "batch_start"
    /\ Len(pf.batch_timings) < MaxBatches
    /\ pf' = [pf EXCEPT !.pc = "inner", !.batch_start_time = pf.now, !.k = 0]
    /\ UNCHANGED <<lcVars, ai, fn, vf, gv, dv, ad, hf>>

\* One turn of `for _ in range(min_timing_iterations)`; an exception of the
\* function leaves _profile.
ProfileCallFunc ==
    /\ pf.pc = "inner"
    /\ pf.k < pf.min_timing_iterations
    /\ \/ \E d \in CallDurations :
            pf' = [pf EXCEPT !.now = pf.now + d, !.ncalls = pf.ncalls + 1,
                             !.used = Append(pf.used, pf.i),
                             !.i = pf.iterations % pf.i_max,
                             !.iterations = pf.iterations + 1,
                             !.k = pf.k + 1]
       \/ pf' = [pf EXCEPT !.pc = "done", !.kind = "raise", !.ncalls = pf.ncalls + 1,
                           !.used = Append(pf.used, pf.i)]
    /\ UNCHANGED <<lcVars, ai, fn, vf, gv, dv, ad, hf>>

\* The end of one batch: record its time, test the exit condition and, on
\* exit, compute the mean.
ProfileBatchEnd ==
    /\ pf.pc = "inner"
    /\ pf.k = pf.min_timing_iterations
    /\ LET end == pf.now
           timings == Append(pf.batch_timings, end - pf.batch_start_time)
           elapsed == end - pf.start_time
       IN  IF ProfileLoopDone(elapsed, pf.min_time_in_sec, Len(timings), pf.batch_size)
           THEN pf' = [pf EXCEPT !.pc = "done", !.end_time = end, !.batch_timings = timings,
                                 !.kind = "return",
                                 !.mean = ProfileMean(elapsed, pf.iterations, pf.time_in_ms),
                                 !.timings = ProfileTimings(timings, pf.time_in_ms)]
           ELSE pf' = [pf EXCEPT !.pc = "batch_start", !.end_time = end, !.batch_timings = timings]
    /\ UNCHANGED <<lcVars, ai, fn, vf, gv, dv, ad, hf>>

PfNext ==
    \/ ProfileStart
    \/ ProfileBatchStart
    \/ ProfileCallFunc
    \/ ProfileBatchEnd

\* A lifecycle instance that is never used.
LcOff ==
    /\ backend = "generic"
    /\ host = HostFresh
    /\ calls = 0
    /\ pc = "off"
    /\ mode = "call"
    /\ params = [iters |-> 1, batch_size |-> 0, min_time_in_sec |-> 0]
    /\ trace = <<>>
    /\ pending = NoErr
    /\ timing = 0
    /\ batch_timings_ms = <<>>
    /\ iterations = 0
    /\ result = NoResult

(***************************************************************************)
(* ArgInfo (arg_info.py).  A declared type is the sequence of its          *)
(* characters.  A string that names a dimension or spells an integer is a  *)
(* token: Lit(n) is the decimal spelling of n, Sym(s) any other string.    *)
(* A string made of several tokens is a term: `lit` says that int() reads  *)
(* it, as the number n; `lead` and `trail` count the blanks around the     *)
(* digits (int() ignores them); a string of blanks only has them in `lead`.*)
(***************************************************************************)
MaxBlanks == 4

RECURSIVE Blanks(_)
Blanks(k) == IF k = 0 THEN "" ELSE " " \o Blanks(k - 1)

BlankCount(s) ==
    IF \E k \in 1 .. MaxBlanks : s = Blanks(k)
    THEN CHOOSE k \in 1 .. MaxBlanks : s = Blanks(k)
    ELSE 0

Lit(n) == [lit |-> TRUE, n |-> n, name |-> "", lead |-> 0, trail |-> 0]

Sym(s) == [lit |-> FALSE, n |-> 0, name |-> s, lead |-> BlankCount(s), trail |-> 0]

STAR == Sym("*")

SP == Sym(" ")

\* The empty string.
EMPTY == Sym("")

\* A field that holds either an int or a str (given as its tokens).
IntV(n) == [int |-> TRUE, n |-> n, expr |-> <<>>]

StrV(e) == [int |-> FALSE, n |-> 0, expr |-> e]

\* ARG_TYPES: element_type -> dtype_str.
ARG_TYPES ==
    { [element_type |-> <<"i", "n", "t", "8", "_", "t">>, dtype |-> "int8"],
      [element_type |-> <<"i", "n", "t", "1", "6", "_", "t">>, dtype |-> "int16"],
      [element_type |-> <<"i", "n", "t", "3", "2", "_", "t">>, dtype |-> "int32"],
      [element_type |-> <<"i", "n", "t", "6", "4", "_", "t">>, dtype |-> "int64"],
      [element_type |-> <<"u", "i", "n", "t", "8", "_", "t">>, dtype |-> "uint8"],
      [element_type |-> <<"u", "i", "n", "t", "1", "6", "_", "t">>, dtype |-> "uint16"],
      [element_type |-> <<"u", "i", "n", "t", "3", "2", "_", "t">>, dtype |-> "uint32"],
      [element_type |-> <<"u", "i", "n", "t", "6", "4", "_", "t">>, dtype |-> "uint64"],
      [element_type |-> <<"f", "l", "o", "a", "t", "1", "6", "_", "t">>, dtype |-> "float16"],
      [element_type |-> <<"b", "f", "l", "o", "a", "t", "1", "6", "_", "t">>, dtype |-> "bfloat16"],
      [element_type |-> <<"f", "l", "o", "a", "t">>, dtype |-> "float32"],
      [element_type |-> <<"d", "o", "u", "b", "l", "e">>, dtype |-> "float64"] }

InArgTypes(et) == \E row \in ARG_TYPES : row.element_type = et

DtypeEntry(et) == (CHOOSE row \in ARG_TYPES : row.element_type = et).dtype

\* np.dtype(dtype_entry).itemsize, and 2 for bfloat16.
ItemSize(dtype) ==
    CASE dtype = "int8" -> 1
        [] dtype = "int16" -> 2
        [] dtype = "int32" -> 4
        [] dtype = "int64" -> 8
        [] dtype = "uint8" -> 1
        [] dtype = "uint16" -> 2
        [] dtype = "uint32" -> 4
        [] dtype = "uint64" -> 8
        [] dtype = "float16" -> 2
        [] dtype = "bfloat16" -> 2
        [] dtype = "float32" -> 4
        [] dtype = "float64" -> 8

\* isinstance(v, np.integer) for a numpy scalar of this dtype
IsIntegerDtype(dtype) ==
    dtype \in {"int8", "int16", "int32", "int64", "uint8", "uint16", "uint32", "uint64"}

\* integer_like(s): int(s) succeeds.
IntegerLike(t) == t.lit

RECURSIVE CountStars(_)
\* str.count("*")
CountStars(d) ==
    IF d = <<>> THEN 0
    ELSE (IF Head(d) = "*" THEN 1 ELSE 0) + CountStars(Tail(d))

\* _get_pointer_level: the number of "*" from the first "*" on.
GetPointerLevel(declared_type) ==
    IF \A j \in 1 .. Len(declared_type) : declared_type[j] # "*"
    THEN 0
    ELSE LET pos == CHOOSE j \in 1 .. Len(declared_type) :
                        /\ declared_type[j] = "*"
                        /\ \A k \in 1 .. j - 1 : declared_type[k] # "*"
         IN  CountStars(SubSeq(declared_type, pos, Len(declared_type)))

\* hat_declared_type[:(-1 * pointer_level)] if pointer_level else hat_declared_type
ElementTypeOf(declared_type, pointer_level) ==
    IF pointer_level # 0
    THEN SubSeq(declared_type, 1, Len(declared_type) - pointer_level)
    ELSE declared_type

\* The characters of a term.
Spell(t) == IF t.lit THEN Blanks(t.lead) \o ToString(t.n) \o Blanks(t.trail) ELSE t.name

RECURSIVE Pow10(_)
Pow10(k) == IF k = 0 THEN 1 ELSE 10 * Pow10(k - 1)

RECURSIVE Digits(_)
Digits(m) == IF m < 10 THEN 1 ELSE 1 + Digits(m \div 10)

\* The string `cur` followed by the string `tok`, as int() and str compare
\* it: blanks around digits leave an integer, digits after digits make a
\* longer number, anything else is a string that int() rejects.
JoinTok(cur, tok) ==
    IF cur = EMPTY THEN tok
    ELSE IF tok = EMPTY THEN cur
    ELSE IF ~tok.lit /\ tok.lead > 0                      \* blanks
    THEN IF cur.lit THEN [cur EXCEPT !.trail = @ + tok.lead]
         ELSE IF cur.lead > 0 THEN Sym(cur.name \o tok.name)
         ELSE [cur EXCEPT !.name = @ \o tok.name]
    ELSE IF tok.lit
    THEN IF ~cur.lit /\ cur.lead > 0 THEN [tok EXCEPT !.lead = @ + cur.lead]
         ELSE IF cur.lit /\ cur.trail = 0 /\ tok.lead = 0
         THEN [cur EXCEPT !.n = cur.n * Pow10(Digits(tok.n)) + tok.n, !.trail = tok.trail]
         ELSE [lit |-> FALSE, n |-> 0, name |-> Spell(cur) \o Spell(tok), lead |-> 0,
               trail |-> 0]
    ELSE [lit |-> FALSE, n |-> 0, name |-> Spell(cur) \o tok.name, lead |-> 0, trail |-> 0]

RECURSIVE JoinAll(_, _)
\* The whole string of a sequence of tokens.
JoinAll(toks, cur) ==
    IF toks = <<>> THEN cur ELSE JoinAll(Tail(toks), JoinTok(cur, Head(toks)))

RECURSIVE SplitSize(_, _)
\* re.split(r"\s?\*\s?", size): a "*" with at most one blank on either side
\* separates the terms; `cur` is the term being read ("" if none yet).
SplitSize(size, cur) ==
    IF size = <<>> THEN <<cur>>
    ELSE IF Head(size) = STAR
    THEN LET rest == IF Len(size) >= 2 /\ size[2] = SP THEN Tail(Tail(size)) ELSE Tail(size)
         IN  <<cur>> \o SplitSize(rest, EMPTY)
    ELSE IF Head(size) = SP /\ Len(size) >= 2 /\ size[2] = STAR
    THEN SplitSize(Tail(size), cur)
    ELSE SplitSize(Tail(size), JoinTok(cur, Head(size)))

\* max(xs) of a non-empty list.
MaxOf(xs) == CHOOSE m \in {xs[j] : j \in 1 .. Len(xs)} : \A j \in 1 .. Len(xs) : xs[j] <= m

\* xs.index(v): the first position of v.
IndexOf(xs, v) == CHOOSE j \in 1 .. Len(xs) : xs[j] = v /\ \A k \in 1 .. j - 1 : xs[k] # v

RECURSIVE ShapeProduct(_)
\* The product of the extents of a shape (ndarray.size).
ShapeProduct(shape) == IF shape = <<>> THEN 1 ELSE Head(shape) * ShapeProduct(Tail(shape))

\* Mutant: the element count as the product of the shape.
AffineTotalElementCount_Product(shape, element_strides) == ShapeProduct(shape)

\* major_dim = element_strides.index(max(element_strides))
\* total_element_count = shape[major_dim] * element_strides[major_dim]
AffineTotalElementCount(shape, element_strides) ==
    LET major_dim == IndexOf(element_strides, MaxOf(element_strides))
    IN  shape[major_dim] * element_strides[major_dim]

\* Mutant: strides in elements, not bytes.
NumpyStrides_Elements(element_num_bytes, element_strides) == element_strides

\* tuple([self.element_num_bytes * x for x in self.element_strides])
NumpyStrides(element_num_bytes, element_strides) ==
    [j \in 1 .. Len(element_strides) |-> element_num_bytes * element_strides[j]]

\* A descriptor.  shape_type is the Python type of `shape` ("tuple" or
\* "list") and shape_items the type of its items ("int" or "str");
\* has_strides says whether the attribute numpy_strides exists; by_pointer
\* says that ctypes_type is POINTER(ctype) and not the ctype itself.
NoInfo ==
    [err |-> NoErr, name |-> "", hat_declared_type |-> <<>>, shape |-> <<>>,
     shape_type |-> "tuple", shape_items |-> "int", usage |-> "",
     pointer_level |-> 0, numpy_dtype |-> "", element_num_bytes |-> 0, by_pointer |-> FALSE,
     has_strides |-> FALSE, element_strides |-> <<>>, numpy_strides |-> <<>>,
     total_element_count |-> IntV(0), total_byte_size |-> IntV(0)]

InfoErr(e) == [NoInfo EXCEPT !.err = e]

\* ArgInfo.__init__
ArgInfo(param) ==
    LET pointer_level == GetPointerLevel(param.declared_type)
        element_type == ElementTypeOf(param.declared_type, pointer_level)
    IN
    IF ~InArgTypes(element_type) THEN InfoErr("NotImplementedError: element_type")
    ELSE
    LET dtype_entry == DtypeEntry(element_type)
        nbytes == IF dtype_entry = "bfloat16" THEN 2 ELSE ItemSize(dtype_entry)
        base == [NoInfo EXCEPT !.name = param.name,
                               !.hat_declared_type = param.declared_type,
                               !.shape = [j \in 1 .. Len(param.shape) |-> Lit(param.shape[j])],
                               !.usage = param.usage,
                               !.pointer_level = pointer_level,
                               !.numpy_dtype = dtype_entry,
                               !.element_num_bytes = nbytes]
    IN
    CASE param.logical_type = "AffineArray" ->
            IF param.shape # <<>>
            THEN IF param.affine_map = <<>> THEN InfoErr("ValueError: max() of empty")
                 ELSE IF IndexOf(param.affine_map, MaxOf(param.affine_map)) > Len(param.shape)
                 THEN InfoErr("IndexError")
                 ELSE LET count == AffineTotalElementCount(param.shape, param.affine_map)
                      IN  [base EXCEPT !.by_pointer = TRUE,
                                       !.has_strides = TRUE,
                                       !.element_strides = param.affine_map,
                                       !.numpy_strides = NumpyStrides(nbytes, param.affine_map),
                                       !.total_element_count = IntV(count),
                                       !.total_byte_size = IntV(nbytes * count)]
            ELSE [base EXCEPT !.by_pointer = TRUE,
                              !.shape = <<Lit(1)>>,
                              !.shape_type = "list",
                              !.has_strides = TRUE,
                              !.element_strides = <<nbytes>>,
                              !.numpy_strides = <<nbytes>>,
                              !.total_element_count = IntV(1),
                              !.total_byte_size = IntV(nbytes * 1)]
      [] param.logical_type = "RuntimeArray" ->
            [base EXCEPT !.by_pointer = TRUE,
                         !.total_byte_size = StrV(<<Lit(nbytes), SP, STAR, SP>> \o param.size),
                         !.total_element_count = StrV(param.size),
                         !.shape = SplitSize(param.size, EMPTY),
                         !.shape_type = "list",
                         !.shape_items = "str"]
      [] param.logical_type = "Element" ->
            [base EXCEPT !.by_pointer =
                             ~(\/ param.usage = "Input"
                               \/ (element_type = <<"i", "n", "t", "6", "4", "_", "t">>
                                   /\ param.usage = "InputOutput")),
                         !.shape = <<Lit(1)>>,
                         !.shape_type = "list",
                         !.has_strides = TRUE,
                         !.element_strides = <<nbytes>>,
                         !.numpy_strides = <<nbytes>>,
                         !.total_element_count = IntV(1),
                         !.total_byte_size = IntV(nbytes * 1)]
      [] OTHER -> InfoErr("ValueError: logical type")

\* is_constant_shaped
IsConstantShaped(info) == \A j \in 1 .. Len(info.shape) : IntegerLike(info.shape[j])

(***************************************************************************)
(* ArgValue (arg_value.py).  A value is None, a numpy ndarray (shape, byte *)
(* strides, dtype), a numpy scalar, a Python int, or a ctypes pointer.     *)
(***************************************************************************)
NoneV == [kind |-> "None", shape |-> <<>>, strides |-> <<>>, dtype |-> "", val |-> 0]

NdArray(shape, strides, dtype) ==
    [kind |-> "ndarray", shape |-> shape, strides |-> strides, dtype |-> dtype, val |-> 0]

NpScalar(dtype, v) == [kind |-> "np.scalar", shape |-> <<>>, strides |-> <<>>, dtype |-> dtype, val |-> v]

PyInt(v) == [kind |-> "int", shape |-> <<>>, strides |-> <<>>, dtype |-> "", val |-> v]

CPointer == [kind |-> "pointer", shape |-> <<>>, strides |-> <<>>, dtype |-> "", val |-> 0]

\* An instance of a ctypes scalar type (c_float(), c_int64(), ...), of the
\* ctype the ARG_TYPES entry of this dtype names.
CScalar(dtype) == [kind |-> "c_scalar", shape |-> <<>>, strides |-> <<>>, dtype |-> dtype,
                   val |-> 0]

\* `if self.pointer_level > 2: raise NotImplementedError`
MaxPointerLevel == 2

\* ArgValue.allocate for a value of None: the error it raises, if any.
AllocateErr(info) ==
    IF info.pointer_level = 1
    THEN IF ~info.total_element_count.int THEN "TypeError"       \* np.random.rand(str)
         ELSE IF ~info.has_strides THEN "AttributeError"          \* no numpy_strides
         ELSE IF Len(info.numpy_strides) # Len(info.shape)
         THEN "ValueError: strides and shape"                     \* as_strided
         ELSE NoErr
    ELSE NoErr

\* ArgValue.allocate for a value of None: the value it assigns.
AllocateValue(info) ==
    IF info.pointer_level = 1
    THEN NdArray([j \in 1 .. Len(info.shape) |-> info.shape[j].n], info.numpy_strides,
                 info.numpy_dtype)
    ELSE IF info.pointer_level = 2                      \* self.ctypes_type()
    THEN IF info.by_pointer THEN CPointer ELSE CScalar(info.numpy_dtype)
    ELSE NoneV

\* ArgValue.__init__: the error it raises, if any.  A Python int or float is
\* converted with self.arg_info.numpy_dtype.type(value); numpy_dtype is an
\* np.dtype except for bfloat16, where it is the scalar class itself.
ArgValueInitErr(info, value) ==
    IF info.pointer_level > MaxPointerLevel THEN "NotImplementedError: pointer level"
    ELSE IF value.kind = "None"
    THEN IF info.pointer_level = 0 THEN "ValueError: value required"
         ELSE AllocateErr(info)
    ELSE IF value.kind = "int" /\ info.numpy_dtype = "bfloat16"
    THEN "AttributeError"            \* the bfloat16 class has no attribute `type`
    ELSE NoErr

\* ArgValue.__init__: the value the new ArgValue holds.
ArgValueInitValue(info, value) ==
    IF value.kind = "None" THEN AllocateValue(info)
    ELSE IF value.kind = "int" /\ info.numpy_dtype # "bfloat16"
    THEN NpScalar(info.numpy_dtype, value.val)
    ELSE value

(***************************************************************************)
(* Building one descriptor from one parameter record, then an ArgValue     *)
(* from the descriptor.                                                    *)
(***************************************************************************)
\* Sequences over S of length at most n.
SeqsUpTo(S, n) == UNION {[1 .. k -> S] : k \in 0 .. n}

T_float == <<"f", "l", "o", "a", "t">>

T_double == <<"d", "o", "u", "b", "l", "e">>

T_int64 == <<"i", "n", "t", "6", "4", "_", "t">>

T_bfloat16 == <<"b", "f", "l", "o", "a", "t", "1", "6", "_", "t">>

\* A type ARG_TYPES has no entry for.
T_half == <<"h", "a", "l", "f">>

\* Declared types: an element type followed by stars and spaces.
DeclaredTypes ==
    {base \o suffix : base \in {T_float, T_double, T_int64, T_bfloat16, T_half},
                      suffix \in SeqsUpTo({"*", " "}, MaxStars)}

Usages == {"Input", "Output", "InputOutput"}

\* The size strings of runtime arrays: terms joined by "*" or " * ".
SizeTerms == {Sym("N"), Lit(2), Lit(100)}

Separators == {<<STAR>>, <<SP, STAR, SP>>}

RECURSIVE JoinedSizes(_)
JoinedSizes(n) ==
    IF n = 0 THEN {<<>>}
    ELSE IF n = 1 THEN {<<t>> : t \in SizeTerms}
    ELSE {s \o sep \o <<t>> : s \in JoinedSizes(n - 1), sep \in Separators, t \in SizeTerms}

SizeStrings == UNION {JoinedSizes(n) : n \in 0 .. MaxRank}

NoParam ==
    [name |-> "", logical_type |-> "Void", declared_type |-> <<>>, usage |-> "Input",
     shape |-> <<>>, affine_map |-> <<>>, size |-> <<>>]

\* Declared types of arrays with a supported element type.
ArrayTypes == {T_float \o <<"*">>, T_double \o <<"*">>}

\* hat_file.Parameter records: every declared type and usage with a few
\* layouts, and every layout with a few declared types.
ParameterRecords ==
    {[NoParam EXCEPT !.name = "A", !.logical_type = "AffineArray", !.declared_type = d,
                     !.usage = u, !.shape = l[1], !.affine_map = l[2]] :
        d \in DeclaredTypes, u \in Usages, l \in {<<<<>>, <<>>>>, <<<<2, 2>>, <<2, 1>>>>}}
    \cup
    {[NoParam EXCEPT !.name = "A", !.logical_type = "AffineArray", !.declared_type = d,
                     !.usage = "Input", !.shape = sh, !.affine_map = am] :
        d \in ArrayTypes,
        sh \in SeqsUpTo(1 .. MaxDim, MaxRank), am \in SeqsUpTo(1 .. MaxDim, MaxRank)}
    \cup
    {[NoParam EXCEPT !.name = "R", !.logical_type = "RuntimeArray", !.declared_type = d,
                     !.usage = u, !.size = sz] :
        d \in DeclaredTypes, u \in Usages, sz \in {<<>>, <<Sym("N"), STAR, Lit(100)>>}}
    \cup
    {[NoParam EXCEPT !.name = "R", !.logical_type = "RuntimeArray", !.declared_type = d,
                     !.usage = "Input", !.size = sz] :
        d \in ArrayTypes, sz \in SizeStrings}
    \cup
    {[NoParam EXCEPT !.name = "N", !.logical_type = lt, !.declared_type = d, !.usage = u] :
        lt \in {"Element", "Void"}, d \in DeclaredTypes, u \in Usages}

AiOff == [pc |-> "off", param |-> NoParam, info |-> NoInfo, supplied |-> NoneV,
          av_err |-> NoErr, av_value |-> NoneV]

AiInit == \E prm \in ParameterRecords : ai = [AiOff EXCEPT !.pc = "record", !.param = prm]

\* ArgInfo(param_description)
BuildArgInfo ==
    /\ ai.pc = "record"
    /\ ai' = [ai EXCEPT !.pc = "built", !.info = ArgInfo(ai.param)]
    /\ UNCHANGED <<lcVars, pf, fn, vf, gv, dv, ad, hf>>

\* ArgValue(arg_info, value)
MakeArgValue ==
    /\ ai.pc = "built"
    /\ ai.info.err = NoErr
    /\ \E v \in {NoneV, PyInt(3), NdArray(<<2>>, <<4>>, "float32")} :
          ai' = [ai EXCEPT !.pc = "valued", !.supplied = v,
                           !.av_err = ArgValueInitErr(ai.info, v),
                           !.av_value = IF ArgValueInitErr(ai.info, v) = NoErr
                                        THEN ArgValueInitValue(ai.info, v) ELSE NoneV]
    /\ UNCHANGED <<lcVars, pf, fn, vf, gv, dv, ad, hf>>

AiNext ==
    \/ BuildArgInfo
    \/ MakeArgValue

(***************************************************************************)
(* FunctionInfo (function_info.py) and the function object made by         *)
(* _make_unprofiled_cpu_func (hat_package.py).                             *)
(*                                                                         *)
(* An entry of an argument list is either a raw value (what the caller     *)
(* passed, or None) or an ArgValue: a value bound to the descriptor at     *)
(* position `info`, with its dim_values (None, or a list of integers and   *)
(* of references to the ArgValue at another position of the list).         *)
(***************************************************************************)
Raw(v) == [isav |-> FALSE, v |-> v, info |-> 0, has_dims |-> FALSE, dim_values |-> <<>>]

AV(i, v) == [isav |-> TRUE, v |-> v, info |-> i, has_dims |-> FALSE, dim_values |-> <<>>]

NoneEntry == Raw(NoneV)

DimInt(n) == [ref |-> FALSE, idx |-> 0, n |-> n]

DimRef(i) == [ref |-> TRUE, idx |-> i, n |-> 0]

IsNdArray(e) == ~e.isav /\ e.v.kind = "ndarray"

IsArrayParam(prm) == prm.logical_type \in {"RuntimeArray", "AffineArray"}

\* names_to_indices = {info.name: i for i, info in enumerate(self.arguments)}:
\* the last position of a name.
HasName(arguments, name) == \E j \in 1 .. Len(arguments) : arguments[j].name = name

NameToIndex(arguments, name) ==
    CHOOSE j \in 1 .. Len(arguments) :
        /\ arguments[j].name = name
        /\ \A k \in j + 1 .. Len(arguments) : arguments[k].name # name

\* The state of preprocess between two steps of its loops.
\* allocs lists, in order, the positions for which an ArgValue was constructed.
PreState(i_value, expanded, arguments) ==
    [err |-> NoErr, i_value |-> i_value, expanded |-> expanded, arguments |-> arguments,
     allocs |-> <<>>]

\* Mutant: a dimension that already has a value is bound again, to the
\* extent of the later array.
PreDynamicDim_Rebind(st, sig, i, dim_name, dim_val) ==
    IF ~HasName(st.arguments, dim_name.name) THEN [st EXCEPT !.err = "KeyError"]
    ELSE
    LET i_dim == NameToIndex(st.arguments, dim_name.name)
        dim_arg_info == st.arguments[i_dim]
        dim_hat_desc == sig[i_dim]
        hat_desc == sig[i]
        two_pass_alloc == hat_desc.usage = "InputOutput" /\ dim_hat_desc.usage = "Output"
        supplied == IF hat_desc.usage = "Output" \/ two_pass_alloc THEN NoneV ELSE PyInt(dim_val.n)
        fresh == TRUE
        made == IF fresh
                THEN [st.expanded EXCEPT ![i_dim] =
                         AV(i_dim, ArgValueInitValue(dim_arg_info, supplied))]
                ELSE st.expanded
    IN
    IF dim_hat_desc.logical_type # "Element" THEN [st EXCEPT !.err = "AssertionError"]
    ELSE IF hat_desc.usage = "Output" /\ dim_hat_desc.usage # "Output"
    THEN [st EXCEPT !.err = "AssertionError"]
    ELSE IF fresh /\ ArgValueInitErr(dim_arg_info, supplied) # NoErr
    THEN [st EXCEPT !.err = ArgValueInitErr(dim_arg_info, supplied)]
    ELSE IF hat_desc.usage = "Output"
    THEN [st EXCEPT !.expanded =
             [made EXCEPT ![i].dim_values = Append(made[i].dim_values, DimRef(i_dim))],
                    !.allocs = IF fresh THEN Append(@, i_dim) ELSE @]
    ELSE [st EXCEPT !.expanded = made,
                    !.allocs = IF fresh THEN Append(@, i_dim) ELSE @]

\* The dynamic dimension `dim_name` of array parameter i, of extent dim_val
\* (function_info.py:84-112).
PreDynamicDim(st, sig, i, dim_name, dim_val) ==
    IF ~HasName(st.arguments, dim_name.name) THEN [st EXCEPT !.err = "KeyError"]
    ELSE
    LET i_dim == NameToIndex(st.arguments, dim_name.name)
        dim_arg_info == st.arguments[i_dim]
        dim_hat_desc == sig[i_dim]
        hat_desc == sig[i]
        two_pass_alloc == hat_desc.usage = "InputOutput" /\ dim_hat_desc.usage = "Output"
        supplied == IF hat_desc.usage = "Output" \/ two_pass_alloc THEN NoneV ELSE PyInt(dim_val.n)
        fresh == st.expanded[i_dim] = NoneEntry
        made == IF fresh
                THEN [st.expanded EXCEPT ![i_dim] =
                         AV(i_dim, ArgValueInitValue(dim_arg_info, supplied))]
                ELSE st.expanded
    IN
    IF dim_hat_desc.logical_type # "Element" THEN [st EXCEPT !.err = "AssertionError"]
    ELSE IF hat_desc.usage = "Output" /\ dim_hat_desc.usage # "Output"
    THEN [st EXCEPT !.err = "AssertionError"]
    ELSE IF fresh /\ ArgValueInitErr(dim_arg_info, supplied) # NoErr
    THEN [st EXCEPT !.err = ArgValueInitErr(dim_arg_info, supplied)]
    ELSE IF hat_desc.usage = "Output"
    THEN [st EXCEPT !.expanded =
             [made EXCEPT ![i].dim_values = Append(made[i].dim_values, DimRef(i_dim))],
                    !.allocs = IF fresh THEN Append(@, i_dim) ELSE @]
    ELSE [st EXCEPT !.expanded = made,
                    !.allocs = IF fresh THEN Append(@, i_dim) ELSE @]

RECURSIVE PreDims(_, _, _, _, _)
\* for dim_name, dim_val in zip(info.shape, array_shape), from position k
\* (function_info.py:76-112).
PreDims(st, sig, i, k, array_shape) ==
    LET shape == st.arguments[i].shape
    IN
    IF st.err # NoErr \/ k > Len(shape) \/ k > Len(array_shape) THEN st
    ELSE
    LET dim_name == shape[k]
        dim_val == array_shape[k]
    IN
    IF IntegerLike(dim_name)
    THEN IF dim_name.n # dim_val.n THEN [st EXCEPT !.err = "AssertionError"]
         ELSE IF sig[i].usage = "Output"
         THEN PreDims([st EXCEPT !.expanded[i].dim_values =
                                     Append(st.expanded[i].dim_values, DimInt(dim_val.n))],
                      sig, i, k + 1, array_shape)
         ELSE PreDims(st, sig, i, k + 1, array_shape)
    ELSE PreDims(PreDynamicDim(st, sig, i, dim_name, dim_val), sig, i, k + 1, array_shape)

\* Mutant: the array supplied for an Output runtime array is not skipped.
SkipOutputArg_Never(i_value, has_full_array_args) == i_value

\* if has_full_array_args: i_value = i_value + 1  (skip over the output arg)
SkipOutputArg(i_value, has_full_array_args) ==
    IF has_full_array_args THEN i_value + 1 ELSE i_value

\* One turn of the loop over the parameters (function_info.py:49-116).
PreParam(st, sig, args, i, has_full_array_args) ==
    LET hat_desc == sig[i]
        info == st.arguments[i]
    IN
    IF hat_desc.logical_type = "RuntimeArray"
    THEN IF hat_desc.usage = "Output"
         THEN IF ArgValueInitErr(info, NoneV) # NoErr
              THEN [st EXCEPT !.err = ArgValueInitErr(info, NoneV)]
              ELSE LET shape == IF Len(info.shape) > 0 /\ info.shape[1] = EMPTY
                                THEN <<>> ELSE info.shape
                       st1 == [st EXCEPT
                                 !.expanded[i] = [AV(i, ArgValueInitValue(info, NoneV))
                                                    EXCEPT !.has_dims = TRUE],
                                 !.arguments[i].shape = shape,
                                 !.allocs = Append(@, i),
                                 !.i_value = SkipOutputArg(@, has_full_array_args)]
                   IN  PreDims(st1, sig, i, 1, shape)
         ELSE IF st.i_value + 1 > Len(args) THEN [st EXCEPT !.err = "IndexError"]
              ELSE LET array == args[st.i_value + 1]
                       st1 == [st EXCEPT !.expanded[i] = array, !.i_value = @ + 1]
                   IN  PreDims(st1, sig, i, 1,
                               [j \in 1 .. Len(array.v.shape) |-> Lit(array.v.shape[j])])
    ELSE IF hat_desc.logical_type = "AffineArray"
    THEN IF st.i_value + 1 > Len(args) THEN [st EXCEPT !.err = "IndexError"]
         ELSE [st EXCEPT !.expanded[i] = args[st.i_value + 1], !.i_value = @ + 1]
    ELSE st

RECURSIVE PreParams(_, _, _, _, _)
PreParams(st, sig, args, i, has_full_array_args) ==
    IF st.err # NoErr \/ i > Len(sig) THEN st
    ELSE PreParams(PreParam(st, sig, args, i, has_full_array_args), sig, args, i + 1,
                   has_full_array_args)

\* Mutant: a partial argument list is never expanded.
PassThrough_Always(args, arguments) == TRUE

\* The two pass-through tests of preprocess (function_info.py:23-27).
PassThrough(args, arguments) ==
    \/ Len(args) >= Len(arguments)
    \/ \E j \in 1 .. Len(args) : ~IsNdArray(args[j])

\* The ctypes type of the descriptor is an integer type: every entry of
\* ARG_TYPES but float (c_float) and double (c_double).
IsIntegerCtype(info) == info.numpy_dtype \notin {"float32", "float64"}

\* v[0] of a dimension value that is no integer: the error it raises, if
\* any.  A numpy scalar and an array without a first element raise
\* IndexError, a null ctypes pointer (val = 0, as allocate() makes it)
\* ValueError (NULL pointer access), None TypeError.
SubscriptErr(v) ==
    CASE v.kind = "np.scalar" -> "IndexError"
      [] v.kind = "ndarray" ->
            IF Len(v.shape) = 0 \/ v.shape[1] = 0 THEN "IndexError" ELSE NoErr
      [] v.kind = "pointer" -> IF v.val = 0 THEN "ValueError" ELSE NoErr
      [] OTHER -> "TypeError"

\* v[0] is an integer: the first element of a one-dimensional array of an
\* integer dtype, or the pointee of a pointer to an integer type (the type
\* of the descriptor the ArgValue was made from, unless the pointer names
\* its own).  Anything else (a float, a sub-array) is put into the shape
\* as it is.
SubscriptIsInteger(entry, arguments) ==
    LET v == entry.v
    IN  CASE v.kind = "ndarray" -> Len(v.shape) = 1 /\ IsIntegerDtype(v.dtype)
          [] v.kind = "pointer" ->
                IF v.dtype # "" THEN IsIntegerDtype(v.dtype)
                ELSE /\ entry.isav
                     /\ entry.info \in 1 .. Len(arguments)
                     /\ IsIntegerCtype(arguments[entry.info])
          [] OTHER -> FALSE

\* The first position of a sequence of errors that holds an error (0: none).
FirstErr(errs) ==
    IF \A k \in 1 .. Len(errs) : errs[k] = NoErr THEN 0
    ELSE CHOOSE k \in 1 .. Len(errs) : errs[k] # NoErr /\ \A m \in 1 .. k - 1 : errs[m] = NoErr

\* ArgValue.__repr__ of the entry e of the list `expanded`: the error it
\* raises, if any.  An array or a value passed by value is printed as it is.
\* Otherwise, with dim_values, the shape is [d.value[0] for d in dim_values]
\* (an int in dim_values has no attribute `value`) and the value is read
\* with np.ctypeslib.as_array; without, the value's `contents` are printed.
\* An exception whose message starts with "NULL pointer" (the ValueError of
\* a null pointer) is caught, every other one is raised again.
ReprErr(arguments, expanded, e) ==
    IF ~e.isav \/ arguments[e.info].pointer_level = 0 \/ e.v.kind = "ndarray" THEN NoErr
    ELSE IF e.has_dims /\ e.dim_values # <<>>
    THEN LET errs == [k \in 1 .. Len(e.dim_values) |->
                        IF ~e.dim_values[k].ref THEN "AttributeError"
                        ELSE IF ~expanded[e.dim_values[k].idx].isav THEN "AttributeError"
                        ELSE SubscriptErr(expanded[e.dim_values[k].idx].v)]
             k1 == FirstErr(errs)
         IN  IF k1 # 0 THEN (IF errs[k1] = "ValueError" THEN NoErr ELSE errs[k1])
             ELSE IF /\ e.v.kind = "pointer"
                     /\ \E k \in 1 .. Len(e.dim_values) :
                            ~SubscriptIsInteger(expanded[e.dim_values[k].idx], arguments)
             THEN "TypeError"
             ELSE NoErr
    ELSE IF e.v.kind = "pointer" THEN NoErr ELSE "AttributeError"

\* FunctionInfo.preprocess: the error raised, the list returned and the
\* descriptors afterwards.
Preprocess(sig, arguments, args) ==
    IF PassThrough(args, arguments) THEN PreState(0, args, arguments)
    ELSE
    LET num_array_args == Cardinality({j \in 1 .. Len(sig) : IsArrayParam(sig[j])})
        has_full_array_args == num_array_args = Len(args)
        st == PreParams(PreState(0, [j \in 1 .. Len(arguments) |-> NoneEntry], arguments),
                        sig, args, 1, has_full_array_args)
        \* The message of the RuntimeError holds the repr of the list.
        reprs == [j \in 1 .. Len(st.expanded) |->
                     ReprErr(st.arguments, st.expanded, st.expanded[j])]
    IN  IF st.err = NoErr /\ \E j \in 1 .. Len(st.expanded) : st.expanded[j] = NoneEntry
        THEN [st EXCEPT !.err = IF FirstErr(reprs) # 0 THEN reprs[FirstErr(reprs)]
                                ELSE "RuntimeError: could not resolve"]
        ELSE st

\* int(s) of a field that holds an int or a str: int() reads a string that
\* spells one integer, blanks around it ignored.
IntOfStrOk(v) == v.int \/ JoinAll(v.expr, EMPTY).lit

IntOfStr(v) == IF v.int THEN v.n ELSE JoinAll(v.expr, EMPTY).n

\* ndarray.size
SizeOf(v) == ShapeProduct(v.shape)

\* tuple(desc.numpy_strides) if hasattr(desc, 'numpy_strides') else
\* tuple(map(lambda x: x * desc.element_num_bytes, desc_shape[1:] + (1, )))
DescNumpyStrides(desc, desc_shape) ==
    IF desc.has_strides THEN desc.numpy_strides
    ELSE [j \in 1 .. Len(desc_shape) |->
            (IF j < Len(desc_shape) THEN desc_shape[j + 1] ELSE 1) * desc.element_num_bytes]

\* Mutant: the byte strides of the value are not compared.
StridesMatch_Any(desc, desc_shape, v) == TRUE

StridesMatch(desc, desc_shape, v) == DescNumpyStrides(desc, desc_shape) = v.strides

\* ArgValue.verify(desc) for a value v: the ValueError raised, if any.
ArgValueVerifyErr(desc, v) ==
    IF desc.pointer_level = 1
    THEN IF v.kind # "ndarray" THEN "ValueError: not ndarray"
         ELSE IF desc.numpy_dtype # v.dtype THEN "ValueError: dtype"
         ELSE IF IsConstantShaped(desc)
         THEN LET desc_shape == [j \in 1 .. Len(desc.shape) |-> desc.shape[j].n]
              IN  IF SizeOf(v) > 1
                  THEN IF desc_shape # v.shape THEN "ValueError: shape"
                       ELSE IF ~StridesMatch(desc, desc_shape, v) THEN "ValueError: strides"
                       ELSE NoErr
                  ELSE IF ~IntOfStrOk(desc.total_element_count) THEN "ValueError: int()"
                       ELSE IF SizeOf(v) # IntOfStr(desc.total_element_count)
                       THEN "ValueError: size"
                       ELSE NoErr
         ELSE NoErr
    ELSE NoErr

\* ArgValue.verify(desc): the descriptor afterwards
\* (desc.total_element_count = int(desc.total_element_count)).
ArgValueVerifyDesc(desc, v) ==
    IF /\ desc.pointer_level = 1
       /\ v.kind = "ndarray"
       /\ desc.numpy_dtype = v.dtype
       /\ IsConstantShaped(desc)
       /\ SizeOf(v) <= 1
       /\ IntOfStrOk(desc.total_element_count)
    THEN [desc EXCEPT !.total_element_count = IntV(IntOfStr(desc.total_element_count))]
    ELSE desc

\* isinstance(value, np.ndarray) or issubclass(type(value), np.integer) or ...
IsNumpyValue(e) == ~e.isav /\ e.v.kind \in {"ndarray", "np.scalar"}

RECURSIVE VerifyArgs(_, _, _)
\* The loop of FunctionInfo.verify from position i: st is the error so far
\* and the descriptors.
VerifyArgs(st, args, i) ==
    IF st.err # NoErr \/ i > Len(args) \/ i > Len(st.arguments) THEN st
    ELSE
    LET info == st.arguments[i]
        e == args[i]
    IN
    IF IsNumpyValue(e) /\ ArgValueInitErr(info, e.v) # NoErr
    THEN [st EXCEPT !.err = ArgValueInitErr(info, e.v)]
    ELSE IF ~IsNumpyValue(e) /\ ~e.isav
    THEN [st EXCEPT !.err = "AttributeError"]          \* the value has no verify()
    ELSE IF ArgValueVerifyErr(info, e.v) # NoErr
    THEN [st EXCEPT !.err = "SystemExit: argument failed verification", !.index = i,
                    !.arguments[i] = ArgValueVerifyDesc(info, e.v)]
    ELSE VerifyArgs([st EXCEPT !.arguments[i] = ArgValueVerifyDesc(info, e.v)], args, i + 1)

\* Mutant: the number of arguments is not checked.
CountMismatch_Never(args, arguments) == FALSE

\* `if len(args) != len(self.arguments)`
CountMismatch(args, arguments) == Len(args) # Len(arguments)

\* FunctionInfo.verify: the error raised (sys.exit is SystemExit) and the
\* descriptors afterwards.
Verify(arguments, args) ==
    IF CountMismatch(args, arguments)
    THEN [err |-> "SystemExit: argument count", index |-> 0, arguments |-> arguments,
          expected |-> Len(arguments), received |-> Len(args)]
    ELSE VerifyArgs([err |-> NoErr, index |-> 0, arguments |-> arguments,
                     expected |-> Len(arguments), received |-> Len(args)], args, 1)

\* self.ctypes_type(self.value) succeeds: a POINTER type takes a ctypes
\* instance (the pointer then points to it) and no number; an integer type
\* takes a value with __index__ (an int, a numpy integer, a 0-d integer
\* array), a floating type a value with __float__ (a number, an array of
\* exactly one element).
CtypeAccepts(info, v) ==
    CASE info.by_pointer -> v.kind \in {"pointer", "c_scalar"}
      [] v.kind = "int" -> TRUE
      [] v.kind = "np.scalar" -> ~IsIntegerCtype(info) \/ IsIntegerDtype(v.dtype)
      [] v.kind = "ndarray" ->
            /\ ShapeProduct(v.shape) = 1
            /\ IsIntegerCtype(info) => (v.shape = <<>> /\ IsIntegerDtype(v.dtype))
      [] OTHER -> FALSE

\* The pointer level an argument is passed with: that of the descriptor its
\* ArgValue was made from.
CargLevel(arguments, j, e) ==
    IF e.isav THEN arguments[e.info].pointer_level ELSE arguments[j].pointer_level

\* ArgValue.as_carg: the error it raises, if any: data_as casts the data
\* pointer of an array and needs a POINTER type, byref needs a ctypes
\* instance, ctypes_type(value) a value it can convert.
AsCargErr(arguments, j, e) ==
    LET info == IF e.isav THEN arguments[e.info] ELSE arguments[j]
    IN  IF CargLevel(arguments, j, e) # 0
        THEN IF e.v.kind = "ndarray"
             THEN IF info.by_pointer THEN NoErr ELSE "TypeError"
             ELSE IF e.v.kind \in {"pointer", "c_scalar"} THEN NoErr ELSE "TypeError"
        ELSE IF CtypeAccepts(info, e.v) THEN NoErr ELSE "TypeError"

\* ArgValue.as_carg: how the value reaches the native function.
AsCarg(arguments, j, e) ==
    IF CargLevel(arguments, j, e) # 0
    THEN IF e.v.kind = "ndarray" THEN "data pointer" ELSE "byref"
    ELSE "by value"

\* The positions as_cargs walks.
CargPositions(arguments, args) ==
    1 .. (IF Len(args) < Len(arguments) THEN Len(args) ELSE Len(arguments))

\* FunctionInfo.as_cargs: the error it raises, if any.  The first list
\* wraps every numpy value in an ArgValue, the second calls as_carg on each
\* entry; a value that is neither a numpy value nor an ArgValue has no
\* as_carg.
AsCargsErr(arguments, args) ==
    LET P == CargPositions(arguments, args)
        wrap == {j \in P : IsNumpyValue(args[j]) /\ ArgValueInitErr(arguments[j], args[j].v) # NoErr}
        conv == {j \in P : IF ~IsNumpyValue(args[j]) /\ ~args[j].isav THEN TRUE
                           ELSE AsCargErr(arguments, j, args[j]) # NoErr}
        first(S) == CHOOSE j \in S : \A k \in S : j <= k
    IN  IF wrap # {} THEN ArgValueInitErr(arguments[first(wrap)], args[first(wrap)].v)
        ELSE IF conv = {} THEN NoErr
        ELSE IF ~IsNumpyValue(args[first(conv)]) /\ ~args[first(conv)].isav
        THEN "AttributeError"
        ELSE AsCargErr(arguments, first(conv), args[first(conv)])

\* FunctionInfo.as_cargs
AsCargs(arguments, args) ==
    [j \in CargPositions(arguments, args) |-> AsCarg(arguments, j, args[j])]

\* The positions whose value the native function writes through a pointer
\* made by preprocess: Output Elements and Output runtime arrays.
WrittenPositions(sig, args) ==
    {j \in 1 .. Len(args) : args[j].isav /\ sig[j].usage = "Output"}

\* Mutant: the dim_values read in reverse order.
OutputShape_Reversed(expanded_args, e) ==
    [k \in 1 .. Len(e.dim_values) |->
        LET d == e.dim_values[Len(e.dim_values) + 1 - k]
        IN  IF d.ref THEN expanded_args[d.idx].v.val ELSE d.n]

\* What the caller sees of an Output runtime array: its shape, read from
\* its dim_values (function_info.py:141-146).
OutputShape(expanded_args, e) ==
    [k \in 1 .. Len(e.dim_values) |->
        IF e.dim_values[k].ref THEN expanded_args[e.dim_values[k].idx].v.val
        ELSE e.dim_values[k].n]

IsOutputRuntimeArray(prm) == prm.logical_type = "RuntimeArray" /\ prm.usage = "Output"

RECURSIVE PostResults_Reversed(_, _, _)
\* Mutant: the results are collected from the last parameter to the first.
PostResults_Reversed(sig, expanded_args, i) ==
    IF i > Len(sig) \/ i > Len(expanded_args) THEN <<>>
    ELSE PostResults_Reversed(sig, expanded_args, i + 1)
         \o (IF IsOutputRuntimeArray(sig[i])
             THEN <<OutputShape(expanded_args, expanded_args[i])>> ELSE <<>>)

RECURSIVE PostResults(_, _, _)
\* The loop of postprocess from position i.
PostResults(sig, expanded_args, i) ==
    IF i > Len(sig) \/ i > Len(expanded_args) THEN <<>>
    ELSE (IF IsOutputRuntimeArray(sig[i])
          THEN <<OutputShape(expanded_args, expanded_args[i])>> ELSE <<>>)
         \o PostResults(sig, expanded_args, i + 1)

\* FunctionInfo.postprocess: None, one array or a list of arrays.
Postprocess(sig, expanded_args, caller_args) ==
    IF \/ Len(expanded_args) = Len(caller_args)
       \/ \E j \in 1 .. Len(caller_args) : ~IsNdArray(caller_args[j])
    THEN [kind |-> "None", arrays |-> <<>>]
    ELSE LET results == PostResults(sig, expanded_args, 1)
         IN  [kind |-> IF Len(results) = 1 THEN "array" ELSE "list", arrays |-> results]

(***************************************************************************)
(* Signatures and argument lists of the calls.                             *)
(***************************************************************************)
P_Affine(name, usage, shape, affine_map) ==
    [NoParam EXCEPT !.name = name, !.logical_type = "AffineArray",
                    !.declared_type = T_float \o <<"*">>, !.usage = usage,
                    !.shape = shape, !.affine_map = affine_map]

P_Runtime(name, declared_type, usage, size) ==
    [NoParam EXCEPT !.name = name, !.logical_type = "RuntimeArray",
                    !.declared_type = declared_type, !.usage = usage, !.size = size]

P_Element(name, declared_type, usage) ==
    [NoParam EXCEPT !.name = name, !.logical_type = "Element",
                    !.declared_type = declared_type, !.usage = usage]

P_A == P_Affine("A", "Input", <<2, 2>>, <<2, 1>>)

P_B == P_Affine("B", "Input", <<2>>, <<1>>)

P_C == P_Affine("C", "Output", <<2, 2>>, <<2, 1>>)

\* float* R, size "N*100"
P_R(usage) == P_Runtime("R", T_float \o <<"*">>, usage, <<Sym("N"), STAR, Lit(100)>>)

\* float** S, size "M * 2"
P_S == P_Runtime("S", T_float \o <<"*", "*">>, "Output", <<Sym("M"), SP, STAR, SP, Lit(2)>>)

\* float** T, size "M"
P_T == P_Runtime("T", T_float \o <<"*", "*">>, "Output", <<Sym("M")>>)

\* float* Q, size "N"
P_Q == P_Runtime("Q", T_float \o <<"*">>, "Input", <<Sym("N")>>)

\* float* U, size "K*2": K is no parameter.
P_U(usage) ==
    P_Runtime("U", IF usage = "Output" THEN T_float \o <<"*", "*">> ELSE T_float \o <<"*">>,
              usage, <<Sym("K"), STAR, Lit(2)>>)

\* float* W, size "2*2"
P_W == P_Runtime("W", T_float \o <<"*">>, "Input", <<Lit(2), STAR, Lit(2)>>)

\* float* V, size "2"
P_V == P_Runtime("V", T_float \o <<"*">>, "Input", <<Lit(2)>>)

\* float* Y, size "N*K": K is no parameter.
P_Y == P_Runtime("Y", T_float \o <<"*">>, "Input", <<Sym("N"), STAR, Sym("K")>>)

\* float** X, size "M*N*2"
P_X == P_Runtime("X", T_float \o <<"*", "*">>, "Output", <<Sym("M"), STAR, Sym("N"), STAR, Lit(2)>>)

P_N(usage) ==
    P_Element("N", IF usage = "Input" THEN T_int64 ELSE T_int64 \o <<"*">>, usage)

P_M == P_Element("M", T_int64 \o <<"*">>, "Output")

\* float*** D
P_D == P_Affine("D", "Input", <<2>>, <<1>>)

Signatures ==
    { <<P_A>>,
      <<P_A, P_B, P_C>>,
      <<P_R("Input"), P_N("Input")>>,
      <<P_R("Input"), P_N("Input"), P_A>>,
      <<P_N("Input"), P_R("Input")>>,
      <<P_Q, P_R("Input"), P_N("Input")>>,
      <<P_R("InputOutput"), P_N("Output")>>,
      <<P_R("Input"), P_A>>,
      <<P_A, P_N("Input")>>,
      <<P_A, P_S, P_M>>,
      <<P_S, P_T, P_M>>,
      <<P_N("Input"), P_S, P_R("Input"), P_M>>,
      <<P_X, P_M, P_N("Output")>>,
      <<P_Y, P_N("Input")>>,
      <<P_A, [P_D EXCEPT !.declared_type = T_float \o <<"*", "*", "*">>]>>,
      <<P_A, [P_B EXCEPT !.declared_type = T_half \o <<"*">>]>> }

\* What a caller passes.
ArgValuesPool ==
    { NdArray(<<2, 2>>, <<8, 4>>, "float32"),
      NdArray(<<2>>, <<4>>, "float32"),
      NdArray(<<5, 100>>, <<400, 4>>, "float32"),
      NdArray(<<2, 2>>, <<8, 4>>, "float64"),
      NdArray(<<2, 2>>, <<4, 8>>, "float32"),
      PyInt(5),
      NoneV }

ArgLists == {[j \in 1 .. Len(l) |-> Raw(l[j])] : l \in SeqsUpTo(ArgValuesPool, MaxArgs)}

\* The values a native function writes into an Output Element.
WrittenValues == 1 .. MaxDim

FnOff ==
    [pc |-> "off", sig |-> <<>>, arguments |-> <<>>, args |-> <<>>, args_ |-> <<>>,
     err |-> NoErr, expected |-> 0, received |-> 0, index |-> 0, allocs |-> <<>>,
     native_calls |-> 0, cargs |-> <<>>, result |-> [kind |-> "None", arrays |-> <<>>]]

FnInit == \E sig \in Signatures : fn = [FnOff EXCEPT !.pc = "described", !.sig = sig]

\* FunctionInfo(func): __post_init__ maps ArgInfo over the parameter
\* records; the first error leaves no FunctionInfo.
LoadFunction ==
    /\ fn.pc = "described"
    /\ LET infos == [j \in 1 .. Len(fn.sig) |-> ArgInfo(fn.sig[j])]
           bad == {j \in 1 .. Len(infos) : infos[j].err # NoErr}
       IN  IF bad = {}
           THEN fn' = [fn EXCEPT !.pc = "loaded", !.arguments = infos]
           ELSE fn' = [fn EXCEPT !.pc = "raised",
                                 !.err = infos[CHOOSE j \in bad : \A k \in bad : j <= k].err]
    /\ UNCHANGED <<lcVars, pf, ai, vf, gv, dv, ad, hf>>

\* f(*args): args_ = func_info.preprocess(args)
CallPreprocess ==
    /\ fn.pc = "loaded"
    /\ \E args \in ArgLists :
          LET st == Preprocess(fn.sig, fn.arguments, args)
          IN  fn' = [fn EXCEPT !.pc = IF st.err = NoErr THEN "preprocessed" ELSE "raised",
                               !.args = args,
                               !.arguments = st.arguments,
                               !.args_ = IF st.err = NoErr THEN st.expanded ELSE <<>>,
                               !.allocs = st.allocs,
                               !.err = st.err]
    /\ UNCHANGED <<lcVars, pf, ai, vf, gv, dv, ad, hf>>

\* func_info.verify(args_)
CallVerify ==
    /\ fn.pc = "preprocessed"
    /\ LET st == Verify(fn.arguments, fn.args_)
       IN  fn' = [fn EXCEPT !.pc = IF st.err = NoErr THEN "verified" ELSE "raised",
                            !.arguments = st.arguments,
                            !.err = st.err,
                            !.expected = st.expected,
                            !.received = st.received,
                            !.index = st.index]
    /\ UNCHANGED <<lcVars, pf, ai, vf, gv, dv, ad, hf>>

\* hat_args = func_info.as_cargs(args_); fn(*hat_args): as_cargs may raise,
\* and then the native function is not called; else the native function
\* writes the Output Elements and allocates the Output runtime arrays.
CallNative ==
    /\ fn.pc = "verified"
    /\ IF AsCargsErr(fn.arguments, fn.args_) # NoErr
       THEN fn' = [fn EXCEPT !.pc = "raised", !.err = AsCargsErr(fn.arguments, fn.args_)]
       ELSE \E w \in [WrittenPositions(fn.sig, fn.args_) -> WrittenValues] :
               fn' = [fn EXCEPT !.pc = "called",
                                !.cargs = AsCargs(fn.arguments, fn.args_),
                                !.native_calls = @ + 1,
                                !.args_ = [j \in 1 .. Len(fn.args_) |->
                                              IF j \in DOMAIN w
                                              THEN [fn.args_[j] EXCEPT !.v.val = w[j]]
                                              ELSE fn.args_[j]]]
    /\ UNCHANGED <<lcVars, pf, ai, vf, gv, dv, ad, hf>>

\* return func_info.postprocess(args_, args)
CallPostprocess ==
    /\ fn.pc = "called"
    /\ fn' = [fn EXCEPT !.pc = "returned",
                        !.result = Postprocess(fn.sig, fn.args_, fn.args)]
    /\ UNCHANGED <<lcVars, pf, ai, vf, gv, dv, ad, hf>>

FnNext ==
    \/ LoadFunction
    \/ CallPreprocess
    \/ CallVerify
    \/ CallNative
    \/ CallPostprocess

(***************************************************************************)
(* One value verified against one descriptor, either with                  *)
(* ArgValue(desc, value).verify(desc) or through FunctionInfo.verify of a  *)
(* function with this single parameter.                                    *)
(***************************************************************************)
\* The parameter records of the verified descriptors.
VfParams ==
    { P_Affine("A", "Input", <<2, 2>>, <<2, 1>>),
      P_Affine("A", "Input", <<2, 2>>, <<1, 2>>),
      P_Affine("A", "Input", <<2>>, <<1>>),
      P_Affine("A", "Input", <<1>>, <<1>>),
      P_Affine("A", "Input", <<1, 1>>, <<1, 1>>),
      P_Affine("A", "Output", <<>>, <<>>),
      [P_Affine("A", "Input", <<2, 2>>, <<2, 1>>) EXCEPT !.declared_type = T_double \o <<"*">>],
      P_Element("N", T_int64 \o <<"*">>, "Output"),
      P_Element("N", T_int64, "Input"),
      P_Runtime("R", T_float \o <<"*">>, "Input", <<Lit(2), STAR, Lit(2)>>),
      P_Runtime("R", T_float \o <<"*">>, "Input", <<Lit(1)>>),
      P_Runtime("R", T_float \o <<"*">>, "Input", <<Lit(2)>>),
      P_Runtime("R", T_float \o <<"*">>, "Input", <<Sym("N"), STAR, Lit(2)>>),
      P_Runtime("R", T_float \o <<"*", "*">>, "Output", <<Sym("N")>> ) }

\* Row-major byte strides of a contiguous array.
ContiguousStrides(shape, nbytes) ==
    [j \in 1 .. Len(shape) |-> nbytes * ShapeProduct(SubSeq(shape, j + 1, Len(shape)))]

\* The values verified: arrays of rank 0 to MaxRank, contiguous or not, of
\* two element types, a numpy scalar, a Python int and None.
VfValues ==
    { NdArray(sh, ContiguousStrides(sh, 4), "float32") :
          sh \in {<<>>, <<0>>, <<1>>, <<2>>, <<1, 1>>, <<2, 1>>, <<2, 2>>} }
    \cup { NdArray(<<2, 2>>, <<4, 8>>, "float32"),
           NdArray(<<2>>, <<8>>, "float32"),
           NdArray(<<1, 1>>, <<8, 8>>, "float32"),
           NdArray(<<2, 2>>, <<16, 8>>, "float64"),
           NdArray(<<1>>, <<8>>, "int64"),
           NpScalar("int64", 3), PyInt(3), NoneV }

VfOff ==
    [pc |-> "off", param |-> NoParam, desc |-> NoInfo, via |-> "", supplied |-> NoneV,
     value |-> NoneV, value_after |-> NoneV, err |-> NoErr, desc_after |-> NoInfo]

VfInit == \E prm \in VfParams : vf = [VfOff EXCEPT !.pc = "record", !.param = prm]

\* ArgInfo(param_description)
VfDescribe ==
    /\ vf.pc = "record"
    /\ vf' = [vf EXCEPT !.pc = "described", !.desc = ArgInfo(vf.param)]
    /\ UNCHANGED <<lcVars, pf, ai, fn, gv, dv, ad, hf>>

\* ArgValue(desc, v).verify(desc)
VfArgValueVerify ==
    /\ vf.pc = "described"
    /\ vf.desc.err = NoErr
    /\ \E v \in VfValues :
          LET ierr == ArgValueInitErr(vf.desc, v)
              held == IF ierr = NoErr THEN ArgValueInitValue(vf.desc, v) ELSE v
          IN  vf' = [vf EXCEPT !.pc = IF ierr # NoErr THEN "not constructed" ELSE "verified",
                               !.via = "ArgValue", !.supplied = v,
                               !.value = held, !.value_after = held,
                               !.err = IF ierr # NoErr THEN ierr
                                       ELSE ArgValueVerifyErr(vf.desc, held),
                               !.desc_after = IF ierr # NoErr THEN vf.desc
                                              ELSE ArgValueVerifyDesc(vf.desc, held)]
    /\ UNCHANGED <<lcVars, pf, ai, fn, gv, dv, ad, hf>>

\* FunctionInfo.verify([v]) of a function whose only parameter is desc
VfFunctionVerify ==
    /\ vf.pc = "described"
    /\ vf.desc.err = NoErr
    /\ \E v \in VfValues :
          LET st == Verify(<<vf.desc>>, <<Raw(v)>>)
          IN  vf' = [vf EXCEPT !.pc = "verified", !.via = "FunctionInfo", !.supplied = v,
                               !.value = v, !.value_after = v,
                               !.err = st.err,
                               !.desc_after = st.arguments[1]]
    /\ UNCHANGED <<lcVars, pf, ai, fn, gv, dv, ad, hf>>

VfNext ==
    \/ VfDescribe
    \/ VfArgValueVerify
    \/ VfFunctionVerify

(***************************************************************************)
(* generate_arg_values (arg_value.py) called on the descriptors of one     *)
(* function, then FunctionInfo.verify of the generated values.  The        *)
(* parameter dim_names_to_values has a default value, a dict created once   *)
(* when the function is defined: `default_map` is that dict.               *)
(***************************************************************************)
\* generate_dim_value: random.choice([2, 3, 4]), cut to MaxDim + 1.
GeneratedDims == {n \in {2, 3, 4} : n <= MaxDim + 1}

\* How often generate_arg_values is called.
MaxGenerateCalls == 2

\* A dict with no key.
EmptyMap == [k \in {} |-> NoneEntry]

\* The first position of a name in the descriptors (the `break` of
\* get_dimension_arg_indices).
FirstIndexOfName(arguments, name) ==
    CHOOSE j \in 1 .. Len(arguments) :
        /\ arguments[j].name = name
        /\ \A k \in 1 .. j - 1 : arguments[k].name # name

\* filter(lambda x: x and not integer_like(x), array_arg.shape)
DimensionSymbols(arg) ==
    {arg.shape[k].name : k \in {j \in 1 .. Len(arg.shape) :
                                   ~IntegerLike(arg.shape[j]) /\ arg.shape[j] # EMPTY}}

\* get_dimension_arg_indices raises RuntimeError: a symbol is the name of
\* no argument.
DimensionArgMissing(arg, arguments) ==
    \E d \in DimensionSymbols(arg) : ~HasName(arguments, d)

\* get_dimension_arg_indices: the indices in shape order.
RECURSIVE DimensionArgIndices(_, _, _)
DimensionArgIndices(arg, arguments, k) ==
    IF k > Len(arg.shape) THEN <<>>
    ELSE IF ~IntegerLike(arg.shape[k]) /\ arg.shape[k] # EMPTY
    THEN <<FirstIndexOfName(arguments, arg.shape[k].name)>>
             \o DimensionArgIndices(arg, arguments, k + 1)
    ELSE DimensionArgIndices(arg, arguments, k + 1)

\* _gen_random_data(dtype, shape): a new contiguous array.
GenRandomData(info, shape) ==
    NdArray(shape, ContiguousStrides(shape, info.element_num_bytes), info.numpy_dtype)

RECURSIVE GenShape_Regenerate(_, _, _, _, _)
\* Mutant: a dimension already in the dict is generated again for the shape.
GenShape_Regenerate(st, arguments, i, k, pick) ==
    LET arg == arguments[i]
    IN
    IF st.err # NoErr \/ k > Len(arg.shape) THEN st
    ELSE
    LET d == arg.shape[k]
    IN
    IF IntegerLike(d)
    THEN GenShape_Regenerate([st EXCEPT !.shape = Append(@, d.n)], arguments, i, k + 1, pick)
    ELSE IF d = EMPTY THEN [st EXCEPT !.err = "AssertionError"]
    ELSE IF d.name \notin DOMAIN st.map
    THEN LET dim_info == arguments[FirstIndexOfName(arguments, d.name)]
             chosen == PyInt(pick[d.name])
         IN  IF ArgValueInitErr(dim_info, chosen) # NoErr
             THEN [st EXCEPT !.err = ArgValueInitErr(dim_info, chosen)]
             ELSE GenShape_Regenerate([st EXCEPT
                              !.shape = Append(@, pick[d.name]),
                              !.map = (d.name :> AV(FirstIndexOfName(arguments, d.name),
                                                    ArgValueInitValue(dim_info, chosen)))
                                      @@ st.map],
                           arguments, i, k + 1, pick)
    ELSE GenShape_Regenerate([st EXCEPT !.shape = Append(@, pick[d.name])],
                             arguments, i, k + 1, pick)

RECURSIVE GenShape(_, _, _, _, _)
\* The loop `for d in arg.shape` of an input runtime array from position k:
\* st.shape is the shape so far and st.nonint the positions of it that hold
\* a value that is no integer (arg_value.py:181-191).
GenShape(st, arguments, i, k, pick) ==
    LET arg == arguments[i]
    IN
    IF st.err # NoErr \/ k > Len(arg.shape) THEN st
    ELSE
    LET d == arg.shape[k]
    IN
    IF IntegerLike(d)
    THEN GenShape([st EXCEPT !.shape = Append(@, d.n)], arguments, i, k + 1, pick)
    ELSE IF d = EMPTY THEN [st EXCEPT !.err = "AssertionError"]      \* assert d in dim_args
    ELSE IF d.name \notin DOMAIN st.map
    THEN LET dim_info == arguments[FirstIndexOfName(arguments, d.name)]
             chosen == PyInt(pick[d.name])
         IN  IF ArgValueInitErr(dim_info, chosen) # NoErr
             THEN [st EXCEPT !.err = ArgValueInitErr(dim_info, chosen)]
             ELSE GenShape([st EXCEPT
                              !.shape = Append(@, pick[d.name]),
                              !.map = (d.name :> AV(FirstIndexOfName(arguments, d.name),
                                                    ArgValueInitValue(dim_info, chosen)))
                                      @@ st.map],
                           arguments, i, k + 1, pick)
    ELSE LET v == st.map[d.name].v
         IN  IF v.kind = "int" \/ (v.kind = "np.scalar" /\ IsIntegerDtype(v.dtype))
             THEN GenShape([st EXCEPT !.shape = Append(@, v.val)], arguments, i, k + 1, pick)
             ELSE IF SubscriptErr(v) # NoErr                          \* v[0]
             THEN [st EXCEPT !.err = SubscriptErr(v)]
             ELSE GenShape([st EXCEPT
                              !.shape = Append(@, v.val),
                              !.nonint = IF SubscriptIsInteger(st.map[d.name], arguments)
                                         THEN @ ELSE @ \cup {Len(st.shape) + 1}],
                           arguments, i, k + 1, pick)

\* _gen_random_data(arg.numpy_dtype, arg.shape) of a constant shaped input
GenConstant(arg) == GenRandomData(arg, [j \in 1 .. Len(arg.shape) |-> arg.shape[j].n])

\* One turn of the loop `for arg in arguments` (arg_value.py:170-213).
GenArg(st, i, pick) ==
    LET arg == st.arguments[i]
    IN
    IF arg.usage # "Output" /\ ~IsConstantShaped(arg)
    THEN IF DimensionArgMissing(arg, st.arguments)
         THEN [st EXCEPT !.err = "RuntimeError: not an argument"]
         ELSE LET st1 == IF Len(arg.shape) = 1 /\ arg.shape[1] = EMPTY
                         THEN [st EXCEPT !.shape = <<1>>, !.nonint = {}]
                         ELSE GenShape([st EXCEPT !.shape = <<>>, !.nonint = {}],
                                       st.arguments, i, 1, pick)
                  data == GenRandomData(arg, st1.shape)
              IN  IF st1.err # NoErr THEN st1
                  ELSE IF st1.nonint # {}          \* _gen_random_data: tuple(shape)
                  THEN [st1 EXCEPT !.err = "TypeError"]
                  ELSE IF ArgValueInitErr(arg, data) # NoErr
                  THEN [st1 EXCEPT !.err = ArgValueInitErr(arg, data)]
                  ELSE [st1 EXCEPT !.values = Append(@, AV(i, data))]
    ELSE IF arg.name \in DOMAIN st.map
    THEN [st EXCEPT !.values = Append(@, st.map[arg.name])]
    ELSE
    LET constant == IsConstantShaped(arg)
        ints == [j \in 1 .. Len(arg.shape) |-> arg.shape[j].n]
        arg1 == IF constant
                THEN [arg EXCEPT
                        !.total_element_count = IntV(IntOfStr(arg.total_element_count)),
                        \* arg.shape = list(map(int, arg.shape))
                        !.shape = [j \in 1 .. Len(arg.shape) |-> Lit(arg.shape[j].n)],
                        !.shape_type = "list",
                        !.shape_items = "int",
                        !.has_strides = TRUE,
                        !.numpy_strides =
                            IF arg.has_strides THEN arg.numpy_strides
                            ELSE [j \in 1 .. Len(ints) |->
                                    (IF j < Len(ints) THEN ints[j + 1] ELSE 1)
                                        * arg.element_num_bytes]]
                ELSE arg
        supplied == IF arg.usage # "Output" THEN GenConstant(arg1) ELSE NoneV
    IN
    IF constant /\ ~IntOfStrOk(arg.total_element_count)
    THEN [st EXCEPT !.err = "ValueError: int()"]
    ELSE IF ArgValueInitErr(arg1, supplied) # NoErr
    THEN [st EXCEPT !.err = ArgValueInitErr(arg1, supplied), !.arguments[i] = arg1]
    ELSE [st EXCEPT !.arguments[i] = arg1,
                    !.values = Append(@, AV(i, ArgValueInitValue(arg1, supplied)))]

RECURSIVE GenArgs(_, _, _)
GenArgs(st, i, pick) ==
    IF st.err # NoErr \/ i > Len(st.arguments) THEN st
    ELSE GenArgs(GenArg(st, i, pick), i + 1, pick)

RECURSIVE GenDimValues(_, _)
\* The second loop: the dim_values of the output runtime arrays
\* (arg_value.py:216-219).
GenDimValues(st, j) ==
    IF st.err # NoErr \/ j > Len(st.values) THEN st
    ELSE
    LET info == st.arguments[st.values[j].info]
    IN
    IF info.usage = "Output" /\ ~IsConstantShaped(info)
    THEN IF DimensionArgMissing(info, st.arguments)
         THEN [st EXCEPT !.err = "RuntimeError: not an argument"]
         ELSE LET idx == DimensionArgIndices(info, st.arguments, 1)
              IN  GenDimValues([st EXCEPT !.values[j].has_dims = TRUE,
                                          !.values[j].dim_values =
                                              [k \in 1 .. Len(idx) |-> DimRef(idx[k])]],
                               j + 1)
    ELSE GenDimValues(st, j + 1)

\* generate_arg_values(arguments, dim_names_to_values): the error raised,
\* the values returned, the descriptors and the dict afterwards.
GenerateArgValues(arguments, dim_names_to_values, pick) ==
    GenDimValues(GenArgs([err |-> NoErr, arguments |-> arguments,
                          map |-> dim_names_to_values, values |-> <<>>, shape |-> <<>>,
                          nonint |-> {}],
                         1, pick),
                 1)

\* The names a dimension can have.
DimNames == {"N", "M", "K"}

\* The functions whose argument values are generated.
GvSignatures ==
    { <<P_A>>,
      <<P_A, P_B, P_C>>,
      <<P_Affine("A", "Input", <<2, 2>>, <<1, 2>>)>>,
      <<P_Affine("A", "Output", <<2, 2>>, <<1, 2>>)>>,
      <<P_Affine("A", "InputOutput", <<2, 1>>, <<1, 2>>), P_B>>,
      <<P_R("Input"), P_N("Input")>>,
      <<P_N("Input"), P_R("Input")>>,
      <<P_Q, P_R("InputOutput"), P_N("Input")>>,
      <<P_S, P_T, P_M>>,
      <<P_V, P_N("Input")>>,
      <<P_W>>,
      <<P_U("Input"), P_N("Input")>>,
      <<P_U("Output"), P_M>>,
      <<P_Q, P_N("Input")>>,
      <<P_R("InputOutput"), P_N("Output")>>,
      <<P_N("Input")>>,
      <<P_M>>,
      <<[P_A EXCEPT !.declared_type = T_double \o <<"*">>], P_Q, P_N("Input")>>,
      <<P_Q, P_R("Input"), P_Element("N", T_float, "Input")>>,
      <<P_Q, P_Element("N", T_float, "Input")>> }

GvOff ==
    [pc |-> "off", sig |-> <<>>, built |-> <<>>, arguments |-> <<>>, default_map |-> EmptyMap,
     entry_map |-> EmptyMap, passed |-> FALSE, calls |-> 0, values |-> <<>>, err |-> NoErr,
     verify_err |-> NoErr]

GvInit == \E sig \in GvSignatures : gv = [GvOff EXCEPT !.pc = "described", !.sig = sig]

\* list(map(ArgInfo, desc.arguments))
GvLoad ==
    /\ gv.pc = "described"
    /\ LET infos == [j \in 1 .. Len(gv.sig) |-> ArgInfo(gv.sig[j])]
       IN  /\ \A j \in 1 .. Len(infos) : infos[j].err = NoErr
           /\ gv' = [gv EXCEPT !.pc = "loaded", !.built = infos, !.arguments = infos]
    /\ UNCHANGED <<lcVars, pf, ai, fn, vf, dv, ad, hf>>

\* generate_arg_values(arguments), without a dict
GvGenerate ==
    /\ gv.pc \in {"loaded", "generated", "verified"}
    /\ gv.calls < MaxGenerateCalls
    /\ \E pick \in [DimNames -> GeneratedDims] :
          LET st == GenerateArgValues(gv.arguments, gv.default_map, pick)
          IN  gv' = [gv EXCEPT !.pc = IF st.err = NoErr THEN "generated" ELSE "raised",
                               !.calls = @ + 1,
                               !.entry_map = gv.default_map,
                               !.passed = FALSE,
                               !.default_map = st.map,
                               !.arguments = st.arguments,
                               !.values = IF st.err = NoErr THEN st.values ELSE <<>>,
                               !.err = st.err,
                               !.verify_err = NoErr]
    /\ UNCHANGED <<lcVars, pf, ai, fn, vf, dv, ad, hf>>

\* generate_arg_values(arguments, {}): the caller passes a new dict
GvGenerateWithDict ==
    /\ gv.pc \in {"loaded", "generated", "verified"}
    /\ gv.calls < MaxGenerateCalls
    /\ \E pick \in [DimNames -> GeneratedDims] :
          LET st == GenerateArgValues(gv.arguments, EmptyMap, pick)
          IN  gv' = [gv EXCEPT !.pc = IF st.err = NoErr THEN "generated" ELSE "raised",
                               !.calls = @ + 1,
                               !.entry_map = EmptyMap,
                               !.passed = TRUE,
                               !.arguments = st.arguments,
                               !.values = IF st.err = NoErr THEN st.values ELSE <<>>,
                               !.err = st.err,
                               !.verify_err = NoErr]
    /\ UNCHANGED <<lcVars, pf, ai, fn, vf, dv, ad, hf>>

\* FunctionInfo.verify(values)
GvVerify ==
    /\ gv.pc = "generated"
    /\ LET st == Verify(gv.arguments, gv.values)
       IN  gv' = [gv EXCEPT !.pc = "verified",
                            !.arguments = st.arguments,
                            !.verify_err = st.err]
    /\ UNCHANGED <<lcVars, pf, ai, fn, vf, dv, ad, hf>>

GvNext ==
    \/ GvLoad
    \/ GvGenerate
    \/ GvGenerateWithDict
    \/ GvVerify

(***************************************************************************)
(* Device functions (hat_package.py, cuda_loader.py, rocm_loader.py): a    *)
(* package with one function that launches a device function is loaded by  *)
(* hat_package_to_func_dict and the function is then called by name.       *)
(***************************************************************************)
DeviceBackends == {"CUDA", "ROCM"}

\* func_desc.runtime: a device runtime, another runtime, or none given.
DeviceRuntimes == DeviceBackends \cup {"OPENMP", ""}

\* hat_file.UsageType
DeviceUsages == {"Input", "Output", "InputOutput"}

DeviceSignatures == UNION {[1 .. n -> DeviceUsages] : n \in 1 .. MaxDeviceParams}

\* Importing the loader module of a runtime: the exception it raises.  Both
\* modules start with `from .arg_info import ArgInfo, verify_args,
\* generate_input_sets` (and the same from `arg_info` in the except clause);
\* arg_info.py defines neither verify_args nor generate_input_sets.
LoaderImportErr(b) == "ImportError"

\* Importing host_loader: the exception it raises.  host_loader imports
\* .hat, which starts with the same import from arg_info (and `import
\* hat_file`, `from arg_info import ...` in the except clause).
HostLoaderImportErr == "ImportError"

\* steps: the driver primitives the call has reached.
DvOff == [pc |-> "off", runtime |-> "", device_func |-> FALSE, sig |-> <<>>,
          available |-> [b \in DeviceBackends |-> FALSE],
          notify |-> [b \in DeviceBackends |-> FALSE],
          printed |-> <<>>, in_dict |-> FALSE, steps |-> <<>>, err |-> NoErr]

\* A function the loop of hat_package_to_func_dict does not hand to
\* _make_unprofiled_cpu_func (it launches, or native profiling is enabled,
\* or there is no shared library).  device_func: the name in `launches` is
\* a key of device_function_map.
DvInit ==
    \E rt \in DeviceRuntimes : \E found \in BOOLEAN :
    \E sig \in DeviceSignatures :
        /\ dv = [DvOff EXCEPT !.pc = "start", !.runtime = rt, !.device_func = found,
                              !.sig = sig]

\* hat_package_to_func_dict: the two guarded imports; every exception of an
\* import makes the runtime unavailable.
DvImportLoaders ==
    /\ dv.pc = "start"
    /\ LET avail == [b \in DeviceBackends |-> LoaderImportErr(b) = NoErr]
       IN  dv' = [dv EXCEPT !.pc = "imported",
                            !.available = avail,
                            !.notify = [b \in DeviceBackends |-> ~avail[b]]]
    /\ UNCHANGED <<lcVars, pf, ai, fn, vf, gv, ad, hf>>

\* _make_callable_func(func_runtime, hat_dir_path, func): the import of the
\* loader module inside it, cuda_loader, rocm_loader or host_loader.
MakeCallableFuncErr(func_runtime) ==
    IF func_runtime \in DeviceBackends
    THEN LoaderImportErr(func_runtime)
    ELSE HostLoaderImportErr

\* The turn of the loop of hat_package_to_func_dict for the function: with a
\* device function and an unavailable runtime the function is left out
\* (`continue`) after the notice is printed once; otherwise
\* _make_callable_func makes the entry of the dictionary.
DvLoadFunction ==
    /\ dv.pc = "imported"
    /\ LET rt == dv.runtime
       IN  dv' =
             IF dv.device_func /\ rt = ""
             THEN [dv EXCEPT !.pc = "raised", !.err = "RuntimeError: runtime"]
             ELSE IF dv.device_func /\ rt \in DeviceBackends /\ ~dv.available[rt]
             THEN [dv EXCEPT !.pc = "loaded",
                             !.printed = IF dv.notify[rt] THEN Append(@, rt) ELSE @,
                             !.notify[rt] = FALSE]
             ELSE IF MakeCallableFuncErr(rt) # NoErr
             THEN [dv EXCEPT !.pc = "raised", !.err = MakeCallableFuncErr(rt)]
             ELSE [dv EXCEPT !.pc = "loaded", !.in_dict = TRUE]
    /\ UNCHANGED <<lcVars, pf, ai, fn, vf, gv, ad, hf>>

\* package.<name>(*args): AttributeDict.__getattr__ is
\* OrderedDict.__getitem__, which raises KeyError for a name that is not a
\* key of the dictionary.
DvCallFunction ==
    /\ dv.pc = "loaded"
    /\ ~dv.in_dict
    /\ dv' = [dv EXCEPT !.pc = "raised", !.err = "KeyError"]
    /\ UNCHANGED <<lcVars, pf, ai, fn, vf, gv, ad, hf>>

DvNext ==
    \/ DvImportLoaders
    \/ DvLoadFunction
    \/ DvCallFunction

(***************************************************************************)
(* AttributeDict (hat_package.py, hat.py): the dictionary of the loaded    *)
(* functions of a package.  A function is named here by the key it is      *)
(* stored under; the keys are kept in insertion order.                     *)
(***************************************************************************)
NameChars == {"f", "1"}

\* Function names and the keys asked for: strings of NameChars.
NameStrings == UNION {[1 .. n -> NameChars] : n \in 0 .. MaxNameLen}

\* k.startswith(key)
StartsWith(k, key) == Len(key) <= Len(k) /\ SubSeq(k, 1, Len(key)) = key

\* The loop of AttributeDict.__getitem__ from position i on: the position
\* of the first key that starts with `key`, 0 when the loop ends without.
RECURSIVE GetItemIndex(_, _, _)
GetItemIndex(keys, key, i) ==
    IF i > Len(keys) THEN 0
    ELSE IF StartsWith(keys[i], key) THEN i
    ELSE GetItemIndex(keys, key, i + 1)

AdOff == [pc |-> "off", keys |-> <<>>, asked |-> <<>>, found |-> <<>>, err |-> NoErr]

AdInit == ad = [AdOff EXCEPT !.pc = "loading"]

\* func_dict[func_name] = ... for a name not stored yet
AdSetItem ==
    /\ ad.pc \in {"loading", "looked up"}
    /\ Len(ad.keys) < MaxFunctions
    /\ \E name \in NameStrings \ {<<>>} :
          /\ \A j \in 1 .. Len(ad.keys) : ad.keys[j] # name
          /\ ad' = [AdOff EXCEPT !.pc = "loading", !.keys = Append(ad.keys, name)]
    /\ UNCHANGED <<lcVars, pf, ai, fn, vf, gv, dv, hf>>

\* func_dict[key]: the function found, named by the key it is stored
\* under; without a match `OrderedDict.__getitem__(key)` is called without
\* the dictionary and raises TypeError.
AdGetItem ==
    /\ ad.pc \in {"loading", "looked up"}
    /\ \E key \in NameStrings :
          LET i == GetItemIndex(ad.keys, key, 1)
          IN  ad' = [ad EXCEPT !.pc = "looked up", !.asked = key,
                               !.found = IF i = 0 THEN <<>> ELSE ad.keys[i],
                               !.err = IF i = 0 THEN "TypeError" ELSE NoErr]
    /\ UNCHANGED <<lcVars, pf, ai, fn, vf, gv, dv, hf>>

AdNext ==
    \/ AdSetItem
    \/ AdGetItem

(***************************************************************************)
(* HAT files (hat_file.py): the dataclasses, their TOML tables, the        *)
(* function table of a HATFile, Serialize and Deserialize.  A dict or a    *)
(* TOML table is a function from keys to values; a function_map is the     *)
(* sequence of its functions in insertion order, keyed by their names.     *)
(***************************************************************************)
\* ParameterType(...).value, UsageType(...).value
EnumValue(member) ==
    CASE member = "AffineArray" -> "affine_array"
      [] member = "RuntimeArray" -> "runtime_array"
      [] member = "Element" -> "element"
      [] member = "Void" -> "void"
      [] member = "Input" -> "input"
      [] member = "Output" -> "output"
      [] member = "InputOutput" -> "input_output"
      [] member = "StdCall" -> "stdcall"

\* ParameterType(value), UsageType(value), CallingConventionType(value)
EnumOf(value) ==
    CASE value = "affine_array" -> "AffineArray"
      [] value = "runtime_array" -> "RuntimeArray"
      [] value = "element" -> "Element"
      [] value = "void" -> "Void"
      [] value = "input" -> "Input"
      [] value = "output" -> "Output"
      [] value = "input_output" -> "InputOutput"
      [] value = "stdcall" -> "StdCall"

HasKey(table, key) == key \in DOMAIN table

\* AuxiliarySupportedTable.add_auxiliary_table
AddAuxiliaryTable(table, auxiliary) ==
    IF auxiliary # EmptyMap THEN table @@ ("auxiliary" :> auxiliary) ELSE table

\* AuxiliarySupportedTable.parse_auxiliary
ParseAuxiliary(table) == IF HasKey(table, "auxiliary") THEN table["auxiliary"] ELSE EmptyMap

\* Description()
DefaultDescription ==
    [comment |-> "", author |-> "", version |-> "", license_url |-> "", auxiliary |-> EmptyMap]

\* Description.to_table
DescriptionToTable(desc) ==
    AddAuxiliaryTable([comment |-> desc.comment, author |-> desc.author,
                       version |-> desc.version, license_url |-> desc.license_url],
                      desc.auxiliary)

\* Description.parse_from_table
DescriptionParse(table) ==
    [DefaultDescription EXCEPT !.author = table["author"],
                               !.version = table["version"],
                               !.license_url = table["license_url"],
                               !.auxiliary = ParseAuxiliary(table)]

\* Parameter(...)
DefaultParameter ==
    [name |-> "", description |-> "", logical_type |-> "None", declared_type |-> "",
     element_type |-> "", usage |-> "None", shape |-> <<>>, affine_map |-> <<>>,
     affine_offset |-> -1, size |-> ""]

\* Parameter.to_table
ParameterToTable(prm) ==
    LET table == [name |-> prm.name, description |-> prm.description,
                  logical_type |-> EnumValue(prm.logical_type),
                  declared_type |-> prm.declared_type,
                  element_type |-> prm.element_type,
                  usage |-> EnumValue(prm.usage)]
    IN  IF prm.logical_type = "AffineArray"
        THEN table @@ [shape |-> prm.shape, affine_map |-> prm.affine_map,
                       affine_offset |-> prm.affine_offset]
        ELSE IF prm.logical_type = "RuntimeArray"
        THEN table @@ [size |-> prm.size]
        ELSE table

\* Parameter.parse_from_table
ParameterParse(table) ==
    LET logical_type == EnumOf(table["logical_type"])
        param == [DefaultParameter EXCEPT !.name = table["name"],
                                          !.description = table["description"],
                                          !.logical_type = logical_type,
                                          !.declared_type = table["declared_type"],
                                          !.element_type = table["element_type"],
                                          !.usage = EnumOf(table["usage"])]
    IN  IF logical_type = "AffineArray"
        THEN [param EXCEPT !.shape = table["shape"],
                           !.affine_map = table["affine_map"],
                           !.affine_offset = table["affine_offset"]]
        ELSE IF logical_type = "RuntimeArray"
        THEN [param EXCEPT !.size = table["size"]]
        ELSE param

\* Parameter.void()
VoidParameter ==
    [DefaultParameter EXCEPT !.logical_type = "Void", !.declared_type = "void",
                             !.element_type = "void", !.usage = "Output"]

\* Function.to_table (launch_parameters, dynamic_shared_mem_bytes, launches,
\* provider and runtime are written when set; they are left unset here).
FunctionToTable(func) ==
    AddAuxiliaryTable(
        [name |-> func.name, description |-> func.description,
         calling_convention |-> EnumValue(func.calling_convention),
         arguments |-> [j \in 1 .. Len(func.arguments) |-> ParameterToTable(func.arguments[j])],
         return |-> ParameterToTable(func.return_info)],
        func.auxiliary)

\* Function.parse_from_table
FunctionParse(table) ==
    [name |-> table["name"], description |-> table["description"],
     calling_convention |-> EnumOf(table["calling_convention"]),
     arguments |-> [j \in 1 .. Len(table["arguments"]) |-> ParameterParse(table["arguments"][j])],
     return_info |-> ParameterParse(table["return"]),
     auxiliary |-> ParseAuxiliary(table)]

\* { func.name : func for func in func_list }
RECURSIVE NameToFuncMap(_)
NameToFuncMap(func_list) ==
    IF func_list = <<>> THEN <<>>
    ELSE LET n == Len(func_list)
             front == NameToFuncMap(SubSeq(func_list, 1, n - 1))
             last == func_list[n]
         IN  IF \E j \in 1 .. Len(front) : front[j].key = last.name
             THEN [j \in 1 .. Len(front) |->
                      IF front[j].key = last.name THEN [key |-> last.name, func |-> last]
                      ELSE front[j]]
             ELSE Append(front, [key |-> last.name, func |-> last])

\* FunctionTableCommon.to_table
FunctionTableToTable(function_map) ==
    [j \in 1 .. Len(function_map) |->
        [key |-> function_map[j].key, table |-> FunctionToTable(function_map[j].func)]]

\* FunctionTableCommon.parse_from_table
FunctionTableParse(all_functions_table) ==
    [j \in 1 .. Len(all_functions_table) |->
        [key |-> all_functions_table[j].key,
         func |-> FunctionParse(all_functions_table[j].table)]]

\* LibraryReference.to_table / parse_from_table
LibraryReferenceToTable(ref) ==
    [name |-> ref.name, version |-> ref.version, target_file |-> ref.target_file]

LibraryReferenceParse(table) ==
    [name |-> table["name"], version |-> table["version"], target_file |-> table["target_file"]]

\* Dependencies()
DefaultDependencies ==
    [link_target |-> "", deploy_files |-> <<>>, dynamic |-> <<>>, auxiliary |-> EmptyMap]

\* Dependencies.to_table
DependenciesToTable(deps) ==
    AddAuxiliaryTable(
        [link_target |-> deps.link_target, deploy_files |-> deps.deploy_files,
         dynamic |-> [j \in 1 .. Len(deps.dynamic) |-> LibraryReferenceToTable(deps.dynamic[j])]],
        deps.auxiliary)

\* Dependencies.parse_from_table
DependenciesParse(table) ==
    [link_target |-> table["link_target"],
     deploy_files |-> table["deploy_files"],
     dynamic |-> [j \in 1 .. Len(table["dynamic"]) |-> LibraryReferenceParse(table["dynamic"][j])],
     auxiliary |-> ParseAuxiliary(table)]

\* Parameters and functions the files are built from.
HfParamA ==
    [DefaultParameter EXCEPT !.name = "A", !.logical_type = "AffineArray",
                             !.declared_type = "float*", !.element_type = "float",
                             !.usage = "Input", !.shape = <<2, 1>>, !.affine_map = <<1, 1>>,
                             !.affine_offset = 0]

HfParamR ==
    [DefaultParameter EXCEPT !.name = "R", !.logical_type = "RuntimeArray",
                             !.declared_type = "float*", !.element_type = "float",
                             !.usage = "Input", !.size = "N"]

\* A runtime array given a shape and an affine map, as the return_info of
\* test_file_basic_serialize.
HfParamS ==
    [HfParamR EXCEPT !.name = "S", !.shape = <<16, 16>>, !.affine_map = <<16, 1>>]

HfParamN ==
    [DefaultParameter EXCEPT !.name = "N", !.logical_type = "Element",
                             !.declared_type = "int64_t", !.element_type = "int64_t",
                             !.usage = "Input"]

HfFunction(name, arguments) ==
    [name |-> name, description |-> "", calling_convention |-> "StdCall",
     arguments |-> arguments, return_info |-> VoidParameter, auxiliary |-> EmptyMap]

HfFunctions ==
    {HfFunction("f", <<HfParamA>>), HfFunction("g", <<HfParamR, HfParamN>>),
     HfFunction("h", <<HfParamS, HfParamN, HfParamA>>)}

HfFunctionLists == UNION {[1 .. n -> HfFunctions] : n \in 0 .. MaxFunctions}

HfTexts == {"", "x"}

HfAuxiliaries == {EmptyMap, [k \in {"tag"} |-> "x"]}

HfDescriptions ==
    {[comment |-> c, author |-> a, version |-> v, license_url |-> "", auxiliary |-> x] :
        c \in HfTexts, a \in HfTexts, v \in HfTexts, x \in HfAuxiliaries}

HfLibraryReference == [name |-> "lib", version |-> "1", target_file |-> "lib.so"]

HfDependencies ==
    {[link_target |-> l, deploy_files |-> df, dynamic |-> dy, auxiliary |-> x] :
        l \in {"", "my_lib.lib"}, df \in {<<>>, <<"x">>},
        dy \in {<<>>, <<HfLibraryReference>>}, x \in HfAuxiliaries}

\* What a HATFile is constructed from: each field varied with the others
\* at one value.
HfInputs ==
    {[description |-> d, dependencies |-> DefaultDependencies,
      functions |-> <<HfFunction("f", <<HfParamA>>)>>] : d \in HfDescriptions}
    \cup {[description |-> DefaultDescription, dependencies |-> dp,
           functions |-> <<HfFunction("f", <<HfParamA>>)>>] : dp \in HfDependencies}
    \cup {[description |-> DefaultDescription, dependencies |-> DefaultDependencies,
           functions |-> fl] : fl \in HfFunctionLists}

\* The two HATFile objects of a session.  `given` is the function map an
\* object was last constructed with or assigned.
HfFileNames == {"X", "Y"}

NoFile ==
    [made |-> FALSE, table |-> "none", own_map |-> <<>>, given |-> <<>>,
     description |-> DefaultDescription, dependencies |-> DefaultDependencies]

NoDocument == [k \in {} |-> <<>>]

\* shared: the function_map of the FunctionTable({}) that is the class-level
\* default of HATFile._function_table.
HfOff ==
    [pc |-> "off", shared |-> <<>>, files |-> [x \in HfFileNames |-> NoFile],
     written |-> NoDocument, source |-> NoFile, source_map |-> <<>>,
     parsed |-> NoFile, err |-> NoErr]

HfInit == hf = [HfOff EXCEPT !.pc = "session"]

\* HATFile.function_map of file x
FunctionMapOf(state, x) ==
    IF state.files[x].table = "shared" THEN state.shared ELSE state.files[x].own_map

\* HATFile(name=..., functions=[...], description=..., dependencies=..., path=...)
\* without _function_table: __init__ binds the class-level default table and
\* the functions setter replaces the function_map of that table.
HfConstruct ==
    /\ hf.pc # "off"
    /\ \E x \in HfFileNames : \E inp \in HfInputs :
          /\ ~hf.files[x].made
          /\ x = "Y" => (hf.files["X"].made /\ inp.description = DefaultDescription
                                            /\ inp.dependencies = DefaultDependencies)
          /\ hf' = [hf EXCEPT !.pc = "session",
                              !.shared = NameToFuncMap(inp.functions),
                              !.files[x] = [made |-> TRUE, table |-> "shared",
                                            own_map |-> <<>>,
                                            given |-> NameToFuncMap(inp.functions),
                                            description |-> inp.description,
                                            dependencies |-> inp.dependencies]]
    /\ UNCHANGED <<lcVars, pf, ai, fn, vf, gv, dv, ad>>

\* HATFile(name=..., _function_table=FunctionTable({...}), ...)
HfConstructWithTable ==
    /\ hf.pc # "off"
    /\ \E x \in HfFileNames : \E f \in HfFunctions :
          /\ ~hf.files[x].made
          /\ x = "Y" => hf.files["X"].made
          /\ hf' = [hf EXCEPT !.pc = "session",
                              !.files[x] = [made |-> TRUE, table |-> "own",
                                            own_map |-> NameToFuncMap(<<f>>),
                                            given |-> NameToFuncMap(<<f>>),
                                            description |-> DefaultDescription,
                                            dependencies |-> DefaultDependencies]]
    /\ UNCHANGED <<lcVars, pf, ai, fn, vf, gv, dv, ad>>

\* Dicts of one function: keyed by the name of the function, or by a key
\* that is not the name of the function it holds.
HfFunctionDicts ==
    {NameToFuncMap(<<f>>) : f \in HfFunctions}
    \cup {<<[key |-> "k", func |-> HfFunction("f", <<HfParamA>>)]>>}

\* self._function_table.function_map = name_to_func_map: the table of file x
\* is the class-level default table or the file's own.
HfAssignMap(state, x, name_to_func_map) ==
    IF state.files[x].table = "shared"
    THEN [state EXCEPT !.pc = "session", !.shared = name_to_func_map,
                       !.files[x].given = name_to_func_map]
    ELSE [state EXCEPT !.pc = "session", !.files[x].own_map = name_to_func_map,
                       !.files[x].given = name_to_func_map]

\* hat_file.functions = func_list_or_dict: a dict is taken as it is, a list
\* becomes { func.name : func }.
HfSetFunctions ==
    /\ hf.pc # "off"
    /\ \E x \in HfFileNames :
          /\ hf.files[x].made
          /\ \E m \in HfFunctionDicts \cup {NameToFuncMap(<<f>>) : f \in HfFunctions} :
                hf' = HfAssignMap(hf, x, m)
    /\ UNCHANGED <<lcVars, pf, ai, fn, vf, gv, dv, ad>>

\* hat_file.function_map = func_map
HfSetFunctionMap ==
    /\ hf.pc # "off"
    /\ \E x \in HfFileNames :
          /\ hf.files[x].made
          /\ \E m \in HfFunctionDicts :
                hf' = HfAssignMap(hf, x, m)
    /\ UNCHANGED <<lcVars, pf, ai, fn, vf, gv, dv, ad>>

\* HATFile.Serialize: the tables written (the device function table is
\* written only when it has functions; it has none here).
HfSerialize ==
    /\ hf.pc # "off"
    /\ \E x \in HfFileNames :
          /\ hf.files[x].made
          /\ hf' = [hf EXCEPT
                !.pc = "serialized",
                !.source = hf.files[x],
                !.source_map = FunctionMapOf(hf, x),
                !.parsed = NoFile,
                !.written = [description |-> DescriptionToTable(hf.files[x].description),
                             functions |-> FunctionTableToTable(FunctionMapOf(hf, x)),
                             dependencies |-> DependenciesToTable(hf.files[x].dependencies)]]
    /\ UNCHANGED <<lcVars, pf, ai, fn, vf, gv, dv, ad>>

\* HATFile.Deserialize of the file written: a HATFile with its own tables.
HfDeserialize ==
    /\ hf.pc = "serialized"
    /\ hf' = [hf EXCEPT
          !.pc = "deserialized",
          !.parsed = [made |-> TRUE, table |-> "own",
                      own_map |-> FunctionTableParse(hf.written["functions"]),
                      given |-> FunctionTableParse(hf.written["functions"]),
                      description |-> DescriptionParse(hf.written["description"]),
                      dependencies |-> DependenciesParse(hf.written["dependencies"])]]
    /\ UNCHANGED <<lcVars, pf, ai, fn, vf, gv, dv, ad>>

HfNext ==
    \/ HfConstruct
    \/ HfConstructWithTable
    \/ HfSetFunctions
    \/ HfSetFunctionMap
    \/ HfSerialize
    \/ HfDeserialize

(***************************************************************************)
(* Specifications.                                                         *)
(***************************************************************************)
\* One CallableFunc instance, called and benchmarked.
Init == LcInit /\ pf = PfOff /\ ai = AiOff /\ fn = FnOff /\ vf = VfOff /\ gv = GvOff
    /\ dv = DvOff /\ ad = AdOff /\ hf = HfOff

Next == LcNext

Spec == Init /\ [][Next]_vars

\* The steps benchmark and __call__ take by themselves once entered: the
\* interpreter runs the next statement of a call that has one.
LcProgress ==
    \/ InitRuntime
    \/ InitBatch
    \/ RunBatchCall
    \/ RunBatchBenchmark
    \/ CleanupBatch
    \/ CleanupRuntime

SpecFair == Init /\ [][Next]_vars /\ WF_vars(LcProgress)

\* One run of the Python-timed loop of _profile.
InitProfile == LcOff /\ PfInit /\ ai = AiOff /\ fn = FnOff /\ vf = VfOff /\ gv = GvOff
    /\ dv = DvOff /\ ad = AdOff /\ hf = HfOff

SpecProfile == InitProfile /\ [][PfNext]_vars

\* Either kind of benchmark.
InitBench == Init \/ InitProfile

NextBench == Next \/ PfNext

SpecBench == InitBench /\ [][NextBench]_vars

\* One parameter record turned into a descriptor and an argument value.
InitArgInfo == LcOff /\ pf = PfOff /\ AiInit /\ fn = FnOff /\ vf = VfOff /\ gv = GvOff
    /\ dv = DvOff /\ ad = AdOff /\ hf = HfOff

SpecArgInfo == InitArgInfo /\ [][AiNext]_vars

\* One function loaded from its description and called once.
InitFunction == LcOff /\ pf = PfOff /\ ai = AiOff /\ FnInit /\ vf = VfOff /\ gv = GvOff
    /\ dv = DvOff /\ ad = AdOff /\ hf = HfOff

SpecFunction == InitFunction /\ [][FnNext]_vars

\* One value verified against one descriptor.
InitVerify == LcOff /\ pf = PfOff /\ ai = AiOff /\ fn = FnOff /\ VfInit /\ gv = GvOff
    /\ dv = DvOff /\ ad = AdOff /\ hf = HfOff

SpecVerify == InitVerify /\ [][VfNext]_vars

\* The argument values of one function generated, then verified.
InitGenerate == LcOff /\ pf = PfOff /\ ai = AiOff /\ fn = FnOff /\ vf = VfOff /\ GvInit
    /\ dv = DvOff /\ ad = AdOff /\ hf = HfOff

SpecGenerate == InitGenerate /\ [][GvNext]_vars

\* The two users of the descriptors of a function: a call of the function,
\* or generate_arg_values followed by verify.
InitDescriptors == InitFunction \/ InitGenerate

NextDescriptors == FnNext \/ GvNext

SpecDescriptors == InitDescriptors /\ [][NextDescriptors]_vars

\* One device function called through the CUDA loader and the ROCm loader.
InitDevice == LcOff /\ pf = PfOff /\ ai = AiOff /\ fn = FnOff /\ vf = VfOff /\ gv = GvOff
    /\ DvInit /\ ad = AdOff /\ hf = HfOff

SpecDevice == InitDevice /\ [][DvNext]_vars

\* One dictionary of loaded functions, filled and looked up.
InitLookup == LcOff /\ pf = PfOff /\ ai = AiOff /\ fn = FnOff /\ vf = VfOff /\ gv = GvOff
    /\ dv = DvOff /\ AdInit /\ hf = HfOff

SpecLookup == InitLookup /\ [][AdNext]_vars

\* HATFile objects constructed, assigned to, serialized and read back.
InitHatFile == LcOff /\ pf = PfOff /\ ai = AiOff /\ fn = FnOff /\ vf = VfOff /\ gv = GvOff
    /\ dv = DvOff /\ ad = AdOff /\ HfInit

SpecHatFile == InitHatFile /\ [][HfNext]_vars

(***************************************************************************)
(* Properties of the lifecycle.                                            *)
(***************************************************************************)
\* Positions of the invocations of a phase in the trace.
PhaseIdx(ph) == {j \in 1 .. Len(trace) : trace[j].phase = ph}

PhaseCount(ph) == Cardinality(PhaseIdx(ph))

\* The phases invoked, in order.
PhaseSeq == [j \in 1 .. Len(trace) |-> trace[j].phase]

NoPhaseRaised == \A j \in 1 .. Len(trace) : trace[j].err = NoErr

\* Invocations of init_runtime, init_batch or run_batch that raised.
FailedIdx ==
    {j \in 1 .. Len(trace) :
        trace[j].phase \in {"init_runtime", "init_batch", "run_batch"} /\ trace[j].err # NoErr}

IsRunBatch(ev) == ev.phase = "run_batch"

\* The values run_batch returned, in invocation order.
RunBatchValues ==
    LET runs == SelectSeq(trace, IsRunBatch)
    IN  [j \in 1 .. Len(runs) |-> runs[j].value]

\* Two fractions <<numerator, denominator>> denote the same number.
FracEq(a, b) == a[1] * b[2] = b[1] * a[2]

\* C1: a __call__ in which no phase raises invokes init_runtime, init_batch,
\* run_batch (iters = 1), cleanup_batch, cleanup_runtime once each in this
\* order, all with benchmark=False, and returns what run_batch returned.
C1_SingleCallPhases ==
    (pc = "done" /\ mode = "call" /\ NoPhaseRaised) =>
        /\ PhaseSeq = <<"init_runtime", "init_batch", "run_batch", "cleanup_batch", "cleanup_runtime">>
        /\ \A j \in 1 .. Len(trace) : ~trace[j].benchmark
        /\ trace[3].iters = 1
        /\ result.kind = "return"
        /\ result.timing = trace[3].value

C1_Witness ==
    /\ pc = "done" /\ mode = "call" /\ NoPhaseRaised
    /\ result.kind = "return" /\ result.timing = 1000

\* C2: when control is back at the caller of __call__ or benchmark,
\* cleanup_runtime has run exactly once if init_runtime was invoked (also
\* when cleanup_batch raised), cleanup_batch has run exactly once and before
\* cleanup_runtime if init_batch was invoked, and cleanup_batch has not run
\* if init_runtime failed.
C2_CleanupAlwaysRuns ==
    pc = "done" =>
        /\ PhaseCount("init_runtime") >= 1 => PhaseCount("cleanup_runtime") = 1
        /\ PhaseCount("init_batch") >= 1 =>
              /\ PhaseCount("cleanup_batch") = 1
              /\ \A b \in PhaseIdx("cleanup_batch"), r \in PhaseIdx("cleanup_runtime") : b < r
        /\ (\E j \in PhaseIdx("init_runtime") : trace[j].err # NoErr) =>
              PhaseCount("cleanup_batch") = 0

C2_Witness ==
    /\ pc = "done"
    /\ \E j \in PhaseIdx("run_batch") : trace[j].err # NoErr
    /\ \E j \in PhaseIdx("cleanup_batch") : trace[j].err # NoErr
    /\ PhaseCount("cleanup_runtime") = 1

\* C3 (as claimed): when init_runtime, init_batch or run_batch of the host
\* backend fails, that failure is the error the caller receives, and the
\* failed phase is not retried.  Calls whose cleanup_runtime failed on the
\* file system (OSError of os.getcwd or os.remove) are left out: that
\* failure is cleanup's own, and any other error is the code's.
C3_FailureSurfaced ==
    (/\ pc = "done" /\ backend = "host" /\ FailedIdx # {}
     /\ \A j \in PhaseIdx("cleanup_runtime") : trace[j].err # "OSError") =>
        /\ result.kind = "raise"
        /\ \A j \in FailedIdx : result.err = trace[j].err
        /\ PhaseCount("init_runtime") <= 1
        /\ PhaseCount("init_batch") <= 1
        /\ Cardinality(FailedIdx) = 1

\* C4: a benchmark that returns normally returns at least batch_size
\* timings whose sum is at least min_time_in_sec * 1000 ms, one per
\* run_batch invocation, in invocation order.
C4_BenchmarkBothMinimums ==
    (pc = "done" /\ mode = "benchmark" /\ result.kind = "return") =>
        /\ Len(result.timings) >= params.batch_size
        /\ SumSeq(result.timings) >= params.min_time_in_sec * 1000
        /\ result.timings = RunBatchValues

C4_Witness ==
    /\ pc = "done" /\ mode = "benchmark" /\ result.kind = "return"
    /\ params.batch_size = 1 /\ params.min_time_in_sec = 1
    /\ result.timings = <<0, 500, 500>>

\* C5 (as claimed): the reported mean is the elapsed time divided by the
\* number of function invocations timed: sum / (iters * batches) in
\* CallableFunc.benchmark, elapsed / (min_timing_iterations * batches) in
\* the Python-timed loop of _profile.
C5_MeanPerInvocation ==
    /\ (pc = "done" /\ mode = "benchmark" /\ result.kind = "return") =>
          FracEq(result.mean,
                 <<SumSeq(result.timings), params.iters * Len(result.timings)>>)
    /\ (pf.pc = "done" /\ pf.kind = "return") =>
          FracEq(pf.mean,
                 ProfileMean(pf.end_time - pf.start_time,
                             pf.min_timing_iterations * Len(pf.batch_timings),
                             pf.time_in_ms))

\* C6 (as claimed): the Python-timed loop does not stop while the elapsed
\* time is below min_time_in_sec, nor before batch_size batches of
\* min_timing_iterations calls have completed.
C6_ProfileBothMinimums ==
    (pf.pc = "done" /\ pf.kind = "return") =>
        /\ pf.end_time - pf.start_time >= pf.min_time_in_sec * 1000
        /\ Len(pf.batch_timings) >= pf.batch_size
        /\ pf.ncalls >= pf.batch_size * pf.min_timing_iterations

(***************************************************************************)
(* Properties of the descriptor.                                           *)
(***************************************************************************)
AiPointerLevel == GetPointerLevel(ai.param.declared_type)

AiElementType == ElementTypeOf(ai.param.declared_type, AiPointerLevel)

\* The record has a logical type and a layout ArgInfo can work with.
AiWellFormed ==
    \/ ai.param.logical_type \in {"RuntimeArray", "Element"}
    \/ /\ ai.param.logical_type = "AffineArray"
       /\ \/ ai.param.shape = <<>>
          \/ /\ ai.param.affine_map # <<>>
             /\ IndexOf(ai.param.affine_map, MaxOf(ai.param.affine_map)) <= Len(ai.param.shape)

\* C7: for an AffineArray descriptor of rank >= 1 the byte stride of
\* dimension i is element size * affine_map[i], the element count is
\* shape[m] * affine_map[m] for m the (first) index of the largest
\* affine_map entry, and the byte size is element size * element count;
\* shape (2,2), affine_map (2,1), float gives (8,4), 4 and 16.
C7_AffineLayout ==
    (/\ ai.pc # "record"
     /\ ai.param.logical_type = "AffineArray"
     /\ Len(ai.param.shape) >= 1
     /\ ai.info.err = NoErr) =>
        LET am == ai.param.affine_map
            sh == ai.param.shape
            es == ai.info.element_num_bytes
        IN  /\ Len(ai.info.numpy_strides) = Len(am)
            /\ \A j \in 1 .. Len(am) : ai.info.numpy_strides[j] = es * am[j]
            /\ \E m \in 1 .. Len(am) :
                  /\ \A j \in 1 .. Len(am) : am[j] <= am[m]
                  /\ \A j \in 1 .. m - 1 : am[j] < am[m]
                  /\ ai.info.total_element_count = IntV(sh[m] * am[m])
                  /\ ai.info.total_byte_size = IntV(es * sh[m] * am[m])
            /\ (sh = <<2, 2>> /\ am = <<2, 1>> /\ ai.param.declared_type = T_float \o <<"*">>) =>
                  /\ ai.info.numpy_strides = <<8, 4>>
                  /\ ai.info.total_element_count = IntV(4)
                  /\ ai.info.total_byte_size = IntV(16)

\* A layout whose element count is not the product of its dimensions.
C7_Witness ==
    /\ ai.pc = "built"
    /\ ai.param.logical_type = "AffineArray"
    /\ ai.param.shape = <<2, 2>> /\ ai.param.affine_map = <<1, 1>>
    /\ ai.param.declared_type = T_float \o <<"*">>
    /\ ai.info.total_element_count = IntV(2)
    /\ ai.info.total_byte_size = IntV(8)

\* C9: building a descriptor fails with the unsupported element type error
\* when the element type has no entry in ARG_TYPES and fails when the
\* declared type has more than two levels of indirection; in either case no
\* descriptor is produced.
C9_DescriptorRejects ==
    ai.pc # "record" =>
        /\ ~InArgTypes(AiElementType) => ai.info.err = "NotImplementedError: element_type"
        /\ AiPointerLevel > 2 => ai.info.err # NoErr

(***************************************************************************)
(* Properties of a call of a loaded function.                              *)
(***************************************************************************)
\* preprocess expanded the caller's argument list.
FnExpanded ==
    /\ fn.pc \in {"preprocessed", "verified", "called", "returned"}
    /\ ~PassThrough(fn.args, fn.arguments)

\* The dimension symbol d of a descriptor's shape has a value in args_.
DimResolved(d) ==
    \/ IntegerLike(d)
    \/ /\ HasName(fn.arguments, d.name)
       /\ fn.args_[NameToIndex(fn.arguments, d.name)].isav
       /\ fn.args_[NameToIndex(fn.arguments, d.name)].v.kind = "np.scalar"

DimValue(d) ==
    IF IntegerLike(d) THEN d.n ELSE fn.args_[NameToIndex(fn.arguments, d.name)].v.val

\* The RuntimeArray parameters that received an array and whose dimension
\* symbols all have a value after preprocess.
ResolvedRuntimeArrays ==
    {j \in 1 .. Len(fn.sig) :
        /\ fn.sig[j].logical_type = "RuntimeArray"
        /\ fn.sig[j].usage # "Output"
        /\ IsNdArray(fn.args_[j])
        /\ \A k \in 1 .. Len(fn.arguments[j].shape) : DimResolved(fn.arguments[j].shape[k])}

ResolvedShape(j) ==
    [k \in 1 .. Len(fn.arguments[j].shape) |-> DimValue(fn.arguments[j].shape[k])]

\* C8: once the dimension symbols of a RuntimeArray parameter are resolved
\* for a call, the descriptor's total element count is the integer
\* product of the resolved shape and its total byte size is the integer
\* element size * that product.
C8_RuntimeArrayResolved ==
    FnExpanded =>
        \A j \in ResolvedRuntimeArrays :
            /\ fn.arguments[j].total_element_count = IntV(ShapeProduct(ResolvedShape(j)))
            /\ fn.arguments[j].total_byte_size =
                   IntV(fn.arguments[j].element_num_bytes * ShapeProduct(ResolvedShape(j)))

\* C10: a call with fewer arguments than the signature has parameters ends
\* with the argument count error of verify, carrying the expected and the
\* received counts, and the native function is not invoked.
C10_ArgumentCountMismatch ==
    (/\ fn.pc \in {"raised", "returned"}
     /\ fn.arguments # <<>>
     /\ Len(fn.args) < Len(fn.sig)) =>
        /\ fn.pc = "raised"
        /\ fn.err = "SystemExit: argument count"
        /\ fn.expected = Len(fn.sig)
        /\ fn.received = Len(fn.args)
        /\ fn.native_calls = 0

(***************************************************************************)
(* Properties of verification.                                             *)
(***************************************************************************)
\* The errors with which verify reports a value that does not match.
MismatchErrors ==
    {"ValueError: not ndarray", "ValueError: dtype", "ValueError: shape",
     "ValueError: strides", "ValueError: int()", "ValueError: size",
     "SystemExit: argument failed verification"}

\* The shape of the descriptor as integers.
VfDescShape == [j \in 1 .. Len(vf.desc.shape) |-> vf.desc.shape[j].n]

\* The byte strides the descriptor declares (those of a contiguous array
\* for a descriptor that carries none).
VfDescStrides ==
    IF vf.desc.has_strides THEN vf.desc.numpy_strides
    ELSE ContiguousStrides(VfDescShape, vf.desc.element_num_bytes)

\* C11: for a pointer level 1 descriptor whose shape is constant, verify
\* accepts a value only if it is an ndarray of the descriptor's dtype whose
\* shape is the descriptor's shape and whose strides are the descriptor's
\* byte strides; every other value is rejected with a mismatch error.
C11_ExactShapeAndStrides ==
    (/\ vf.pc = "verified"
     /\ vf.desc.pointer_level = 1
     /\ IsConstantShaped(vf.desc)) =>
        /\ vf.err = NoErr =>
              /\ vf.value.kind = "ndarray"
              /\ vf.value.dtype = vf.desc.numpy_dtype
              /\ vf.value.shape = VfDescShape
              /\ vf.value.strides = VfDescStrides
        /\ vf.err # NoErr => vf.err \in MismatchErrors

\* C13: verify never changes the value it verifies and is total: it either
\* returns normally or reports a mismatch.
C13_VerifyTotalAndPure ==
    vf.pc = "verified" =>
        /\ vf.value_after = vf.value
        /\ vf.err \in {NoErr} \cup MismatchErrors

(***************************************************************************)
(* Properties of generate_arg_values.                                      *)
(***************************************************************************)
\* C12: the values generate_arg_values makes for the descriptors of a
\* function pass FunctionInfo.verify against the same descriptors, for
\* every layout.
C12_GeneratedValuesVerify ==
    gv.pc = "verified" => gv.verify_err = NoErr

(***************************************************************************)
(* Properties of the expansion of a partial call.                          *)
(***************************************************************************)
\* The positions of the Output runtime arrays, in order.
OutputArrayPositions ==
    SelectSeq([j \in 1 .. Len(fn.sig) |-> j], LAMBDA j : IsOutputRuntimeArray(fn.sig[j]))

\* The declared dimensions of parameter j, in shape order.
DeclaredDims(j) == SplitSize(fn.sig[j].size, EMPTY)

\* The extent of a declared dimension after the call: the literal, or what
\* the Element argument of that name holds.
ExtentAfterCall(d) ==
    IF IntegerLike(d) THEN d.n ELSE fn.args_[NameToIndex(fn.arguments, d.name)].v.val

\* C14: after an expanded call the shape of each Output runtime array
\* returned to the caller has, in shape order, the literal of a literal
\* dimension and, for a dimension symbol, the integer the callee wrote into
\* the Output Element of that name.
C14_OutputShapeFromDims ==
    (fn.pc = "returned" /\ ~PassThrough(fn.args, fn.arguments)) =>
        /\ Len(fn.result.arrays) = Len(OutputArrayPositions)
        /\ \A p \in 1 .. Len(OutputArrayPositions) :
              LET j == OutputArrayPositions[p]
              IN  /\ Len(fn.result.arrays[p]) = Len(DeclaredDims(j))
                  /\ \A k \in 1 .. Len(DeclaredDims(j)) :
                        fn.result.arrays[p][k] = ExtentAfterCall(DeclaredDims(j)[k])

\* An output with two Output Element dimensions that the callee wrote with
\* different integers, and a literal dimension.
C14_Witness ==
    /\ fn.pc = "returned"
    /\ fn.sig = <<P_X, P_M, P_N("Output")>>
    /\ fn.args = <<>>
    /\ fn.args_[2].v.val = 1
    /\ fn.args_[3].v.val = 2
    /\ fn.result.arrays = <<<<1, 2, 2>>>>

\* The runtime arrays that are not Output: preprocess takes them from the
\* caller's list.
InputArrayPositions ==
    {j \in 1 .. Len(fn.sig) :
        fn.sig[j].logical_type = "RuntimeArray" /\ fn.sig[j].usage # "Output"}

\* The <<array, dimension>> pairs of the supplied arrays that the dimension
\* symbol `name` stands for.
Bindings(name) ==
    UNION {{<<j, k>> : k \in {d \in 1 .. Len(DeclaredDims(j)) :
                                  /\ IsNdArray(fn.args_[j])
                                  /\ d <= Len(fn.args_[j].v.shape)
                                  /\ DeclaredDims(j)[d] = Sym(name)}} :
           j \in InputArrayPositions}

\* The first of them, in the order of the parameters and of the shape.
FirstBinding(name) ==
    CHOOSE b \in Bindings(name) :
        \A c \in Bindings(name) : b[1] < c[1] \/ (b[1] = c[1] /\ b[2] <= c[2])

\* The names of the Input Elements of the signature.
InputElementNames ==
    {fn.sig[j].name : j \in {k \in 1 .. Len(fn.sig) :
                                fn.sig[k].logical_type = "Element" /\ fn.sig[k].usage = "Input"}}

\* C15: in an expanded call, the Input Element a dynamic dimension of an
\* Input or InputOutput runtime array names is passed to the native
\* function, by value, with the extent of the supplied array in that
\* dimension; a symbol that already has a value keeps it, so the extent is
\* that of the first array dimension the symbol stands for.
C15_ArrayIsAuthoritative ==
    (fn.pc \in {"called", "returned"} /\ ~PassThrough(fn.args, fn.arguments)) =>
        \A name \in InputElementNames :
            Bindings(name) # {} =>
                LET i_dim == NameToIndex(fn.arguments, name)
                    b == FirstBinding(name)
                IN  /\ fn.args_[i_dim].isav
                    /\ fn.args_[i_dim].v.val = fn.args_[b[1]].v.shape[b[2]]
                    /\ fn.cargs[i_dim] = "by value"

\* Two arrays share the symbol N and differ in its extent: N is taken from
\* the first and reused for the second.
C15_Witness ==
    /\ fn.pc = "returned"
    /\ fn.sig = <<P_Q, P_R("Input"), P_N("Input")>>
    /\ fn.args = <<Raw(NdArray(<<2>>, <<4>>, "float32")),
                   Raw(NdArray(<<5, 100>>, <<400, 4>>, "float32"))>>
    /\ fn.args_[3].v.val = 2
    /\ fn.native_calls = 1

\* The positions of the array parameters, in order: an expanded call takes
\* the caller's arguments for them.
ArrayPositions ==
    SelectSeq([j \in 1 .. Len(fn.sig) |-> j], LAMBDA j : IsArrayParam(fn.sig[j]))

\* The InputOutput runtime arrays all of whose dimension symbols name
\* Output Elements (the two-pass allocation pattern).
TwoPassArrays ==
    {j \in 1 .. Len(fn.sig) :
        /\ fn.sig[j].logical_type = "RuntimeArray"
        /\ fn.sig[j].usage = "InputOutput"
        /\ \E k \in 1 .. Len(DeclaredDims(j)) : ~IntegerLike(DeclaredDims(j)[k])
        /\ \A k \in 1 .. Len(DeclaredDims(j)) :
              LET d == DeclaredDims(j)[k]
              IN  ~IntegerLike(d) =>
                     \E i \in 1 .. Len(fn.sig) :
                        /\ fn.sig[i].name = d.name
                        /\ fn.sig[i].logical_type = "Element"
                        /\ fn.sig[i].usage = "Output"}

\* A call that ended and passed one argument per array parameter: None for
\* the two-pass arrays (at least one), an ndarray for the others.
FirstPassCall ==
    /\ fn.pc \in {"raised", "returned"}
    /\ fn.arguments # <<>>
    /\ TwoPassArrays # {}
    /\ Len(fn.args) = Len(ArrayPositions)
    /\ \A p \in 1 .. Len(ArrayPositions) :
          IF ArrayPositions[p] \in TwoPassArrays THEN fn.args[p] = NoneEntry
          ELSE IsNdArray(fn.args[p])

\* C16: the first pass of a two-pass allocation, in which the caller passes
\* None for the InputOutput runtime array, is expanded into a full argument
\* list with newly allocated Output dimension values, without an error.
C16_TwoPassFirstPassAccepted ==
    FirstPassCall =>
        /\ fn.pc = "returned"
        /\ fn.err = NoErr
        /\ Len(fn.args_) = Len(fn.sig)
        /\ \A j \in 1 .. Len(fn.sig) :
              (fn.sig[j].logical_type = "Element" /\ fn.sig[j].usage = "Output") =>
                  fn.args_[j].isav

(***************************************************************************)
(* Properties of the dimension symbols.                                    *)
(***************************************************************************)
\* A runtime array of the signature has a dimension symbol that is the name
\* of no parameter.
HasUnresolvedSymbol(sig) ==
    \E j \in 1 .. Len(sig) :
        /\ sig[j].logical_type = "RuntimeArray"
        /\ \E k \in 1 .. Len(SplitSize(sig[j].size, EMPTY)) :
              LET d == SplitSize(sig[j].size, EMPTY)[k]
              IN  /\ ~IntegerLike(d)
                  /\ d # EMPTY
                  /\ \A i \in 1 .. Len(sig) : sig[i].name # d.name

\* C17: a dimension symbol that names no parameter is always reported as an
\* error: generate_arg_values raises the "not an argument" error, and a
\* partial call that preprocess expands raises an error and never reaches
\* the native function.
C17_UnresolvedSymbolReported ==
    /\ (gv.calls > 0 /\ HasUnresolvedSymbol(gv.sig)) =>
          gv.pc = "raised" /\ gv.err # NoErr
    /\ (/\ fn.pc \in {"raised", "returned"}
        /\ fn.arguments # <<>>
        /\ HasUnresolvedSymbol(fn.sig)
        /\ ~PassThrough(fn.args, fn.arguments)) =>
          fn.pc = "raised" /\ fn.err # NoErr /\ fn.native_calls = 0

\* C18: the dict of dimension values is scoped to one call of
\* generate_arg_values: a call made without passing a dict starts with no
\* dimension value of an earlier call.
C18_DimensionMapScopedToCall ==
    (gv.calls > 0 /\ ~gv.passed) => gv.entry_map = EmptyMap

(***************************************************************************)
(* Properties of the descriptors over calls.                               *)
(***************************************************************************)
\* The descriptor `cur` of parameter record prm compared with the one
\* ArgInfo constructs: every field but shape and total_element_count of a
\* RuntimeArray is as constructed.
AsConstructed(prm, cur) ==
    IF prm.logical_type = "RuntimeArray"
    THEN cur = [ArgInfo(prm) EXCEPT !.shape = cur.shape,
                                    !.shape_type = cur.shape_type,
                                    !.shape_items = cur.shape_items,
                                    !.total_element_count = cur.total_element_count]
    ELSE cur = ArgInfo(prm)

\* C19: no sequence of preprocess, verify, as_cargs,
\* postprocess and generate_arg_values calls changes a descriptor, except
\* for the shape and total_element_count of a RuntimeArray.
C19_DescriptorsImmutable ==
    /\ \A j \in 1 .. Len(fn.arguments) : AsConstructed(fn.sig[j], fn.arguments[j])
    /\ \A j \in 1 .. Len(gv.arguments) : AsConstructed(gv.sig[j], gv.arguments[j])

\* C20: an Output Element has pointer depth 1, is passed by pointer and
\* gets a value when none is supplied; an Input Element has pointer depth 0
\* and is passed by value; for every Element the native type is a pointer
\* type exactly when the pointer depth is not 0.
C20_ElementPassing ==
    (/\ ai.pc \in {"built", "valued"}
     /\ ai.param.logical_type = "Element"
     /\ ai.info.err = NoErr) =>
        /\ ai.param.usage = "Output" =>
              /\ ai.info.pointer_level = 1
              /\ ai.info.by_pointer
              /\ (ai.pc = "valued" /\ ai.supplied = NoneV) =>
                    (ai.av_err = NoErr /\ ai.av_value.kind = "ndarray")
        /\ ai.param.usage = "Input" =>
              /\ ai.info.pointer_level = 0
              /\ ~ai.info.by_pointer
        /\ ai.info.by_pointer <=> ai.info.pointer_level # 0

(***************************************************************************)
(* Properties of a device call.                                            *)
(***************************************************************************)
\* The parameters a transfer loop of the protocol copies, in signature order.
RECURSIVE ProtocolCopies(_, _, _, _)
ProtocolCopies(step, usages, sig, i) ==
    IF i > Len(sig) THEN <<>>
    ELSE (IF sig[i] \in usages THEN <<<<step, i>>>> ELSE <<>>)
         \o ProtocolCopies(step, usages, sig, i + 1)

\* The steps of the protocol for a signature, in order.
ProtocolSteps(sig) ==
    <<<<"verify", 0>>>>
    \o [j \in 1 .. Len(sig) |-> <<"alloc", j>>]
    \o ProtocolCopies("htod", {"Input", "InputOutput"}, sig, 1)
    \o <<<<"launch", 0>>, <<"sync", 0>>>>
    \o ProtocolCopies("dtoh", {"Output", "InputOutput"}, sig, 1)

\* The package names a device function and a runtime for the function.
DvWellFormedCall ==
    /\ dv.runtime \in DeviceBackends
    /\ dv.device_func

AdIsKey(key) == \E j \in 1 .. Len(ad.keys) : ad.keys[j] = key

\* C24: a lookup by a key that some stored name starts with finds a
\* function whose name starts with the key, and a lookup by a stored name
\* finds the function stored under exactly that name.
C24_LookupByName ==
    ad.pc = "looked up" =>
        /\ (\E j \in 1 .. Len(ad.keys) : StartsWith(ad.keys[j], ad.asked)) =>
              (ad.err = NoErr /\ StartsWith(ad.found, ad.asked))
        /\ AdIsKey(ad.asked) => (ad.err = NoErr /\ ad.found = ad.asked)

(***************************************************************************)
(* Properties of HAT files.                                                *)
(***************************************************************************)
KeysOf(function_map) == {function_map[j].key : j \in 1 .. Len(function_map)}

FuncOf(function_map, key) ==
    function_map[CHOOSE j \in 1 .. Len(function_map) : function_map[j].key = key].func

NamesAndShapes(func) ==
    [j \in 1 .. Len(func.arguments) |-> <<func.arguments[j].name, func.arguments[j].shape>>]

\* C25: the HATFile read back from a serialized HATFile has an equal
\* description, equal dependencies, the same function names and, for each
\* function, the same arguments in order with the same names and shapes.
C25_SerializeRoundTrip ==
    hf.pc = "deserialized" =>
        /\ hf.parsed.description = hf.source.description
        /\ hf.parsed.dependencies = hf.source.dependencies
        /\ KeysOf(hf.parsed.own_map) = KeysOf(hf.source_map)
        /\ \A k \in KeysOf(hf.source_map) :
              NamesAndShapes(FuncOf(hf.parsed.own_map, k)) = NamesAndShapes(FuncOf(hf.source_map, k))

\* C29: the function_map of every HATFile holds exactly the functions that
\* HATFile was constructed with or last assigned, whatever was done with
\* the other HATFile.
C29_FunctionTablesNotShared ==
    \A x \in HfFileNames :
        hf.files[x].made => FunctionMapOf(hf, x) = hf.files[x].given

(***************************************************************************)
(* Properties of the generated dimension values.                           *)
(***************************************************************************)
\* The positions of the runtime arrays with a symbolic dimension.
GvDynamicArrays ==
    {j \in 1 .. Len(gv.built) :
        gv.sig[j].logical_type = "RuntimeArray" /\ DimensionSymbols(gv.built[j]) # {}}

\* The dimensions (position in the shape) of array j that have a symbol.
GvSymbolicDims(j) ==
    {k \in 1 .. Len(gv.built[j].shape) :
        ~IntegerLike(gv.built[j].shape[k]) /\ gv.built[j].shape[k] # EMPTY}

\* Every dimension Element comes after the runtime arrays that name it.
GvDimensionsAfterArrays ==
    \A j \in GvDynamicArrays : \A k \in GvSymbolicDims(j) :
        /\ HasName(gv.built, gv.built[j].shape[k].name)
        /\ FirstIndexOfName(gv.built, gv.built[j].shape[k].name) > j
        /\ gv.sig[FirstIndexOfName(gv.built, gv.built[j].shape[k].name)].logical_type = "Element"

\* C26: when every dimension Element comes after the runtime arrays that
\* name it, the value generated at the position of a dimension Element is
\* the extent, in that dimension, of every generated Input or InputOutput
\* runtime array that names it.
C26_GeneratedDimensionsAgree ==
    (gv.pc \in {"generated", "verified"} /\ GvDimensionsAfterArrays) =>
        \A j \in GvDynamicArrays : \A k \in GvSymbolicDims(j) :
            gv.sig[j].usage # "Output" =>
                LET i == FirstIndexOfName(gv.built, gv.built[j].shape[k].name)
                IN  /\ gv.values[j].v.kind = "ndarray"
                    /\ gv.values[i].v.kind = "np.scalar"
                    /\ gv.values[j].v.shape[k] = gv.values[i].v.val

\* A second call has generated two arrays that name N; N holds their extent.
C26_Witness ==
    /\ gv.pc = "generated"
    /\ gv.calls = 2
    /\ gv.sig = <<P_Q, P_R("InputOutput"), P_N("Input")>>
    /\ GvDimensionsAfterArrays
    /\ gv.values[3].v.val \in GeneratedDims
    /\ gv.values[1].v.shape = <<gv.values[3].v.val>>
    /\ gv.values[2].v.shape = <<gv.values[3].v.val, 100>>

(***************************************************************************)
(* Several Output runtime arrays sharing one dimension Element.            *)
(***************************************************************************)
\* The Output runtime arrays whose declared shape names the Element `name`.
OutputArraysNaming(name) ==
    {j \in 1 .. Len(fn.sig) :
        /\ IsOutputRuntimeArray(fn.sig[j])
        /\ \E k \in 1 .. Len(DeclaredDims(j)) :
              ~IntegerLike(DeclaredDims(j)[k]) /\ DeclaredDims(j)[k].name = name}

\* The Elements named by two or more Output runtime arrays.
SharedOutputDims ==
    {name \in {fn.sig[j].name : j \in 1 .. Len(fn.sig)} :
        Cardinality(OutputArraysNaming(name)) >= 2}

\* How many ArgValues preprocess constructed for position j.
AllocationsFor(j) == Cardinality({a \in 1 .. Len(fn.allocs) : fn.allocs[a] = j})

\* C27: when several Output runtime arrays of a signature name the same
\* dimension Element, an expanded call constructs exactly one value for that
\* Element, the value sits at the Element's position of the expanded list,
\* each of those arrays holds a reference to that position wherever its
\* shape names the Element, and the caller receives the arrays in signature
\* order: one array when the signature has one Output runtime array, a list
\* otherwise.
C27_SharedOutputDimension ==
    (FnExpanded /\ SharedOutputDims # {}) =>
        /\ \A name \in SharedOutputDims :
              LET i_dim == NameToIndex(fn.arguments, name)
              IN  /\ AllocationsFor(i_dim) = 1
                  /\ fn.args_[i_dim].isav
                  /\ fn.args_[i_dim].info = i_dim
                  /\ \A j \in OutputArraysNaming(name) :
                        /\ Len(fn.args_[j].dim_values) = Len(DeclaredDims(j))
                        /\ \A k \in 1 .. Len(DeclaredDims(j)) :
                              (~IntegerLike(DeclaredDims(j)[k]) /\ DeclaredDims(j)[k].name = name)
                                  => fn.args_[j].dim_values[k] = DimRef(i_dim)
        /\ fn.pc = "returned" =>
              /\ fn.result.kind = (IF Len(OutputArrayPositions) = 1 THEN "array" ELSE "list")
              /\ fn.result.arrays =
                    [p \in 1 .. Len(OutputArrayPositions) |->
                        OutputShape(fn.args_, fn.args_[OutputArrayPositions[p]])]

\* S of shape (M, 2) and T of shape (M) are both Output and share M: the
\* callee wrote 2 into M and the caller receives the list [S, T].
C27_Witness ==
    /\ fn.pc = "returned"
    /\ fn.sig = <<P_S, P_T, P_M>>
    /\ fn.args = <<>>
    /\ fn.allocs = <<1, 3, 2>>
    /\ fn.args_[3].v.val = 2
    /\ fn.result = [kind |-> "list", arrays |-> <<<<2, 2>>, <<2>>>>]

(***************************************************************************)
(* The list preprocess makes of a partial call.                            *)
(***************************************************************************)
\* The caller passed one array per array parameter, outputs included.
HasFullArrayArgs ==
    Cardinality({j \in 1 .. Len(fn.sig) : IsArrayParam(fn.sig[j])}) = Len(fn.args)

\* The array parameters that stand for one of the caller's arrays, in
\* order: all of them when the caller passed the outputs too, else those
\* that are no Output runtime array.
SuppliedPositions ==
    SelectSeq([j \in 1 .. Len(fn.sig) |-> j],
              LAMBDA j : /\ IsArrayParam(fn.sig[j])
                         /\ (HasFullArrayArgs \/ ~IsOutputRuntimeArray(fn.sig[j])))

\* The dimension symbols of the runtime arrays of the signature that name
\* a parameter.
DimensionNames ==
    UNION {{DeclaredDims(j)[k].name :
               k \in {d \in 1 .. Len(DeclaredDims(j)) :
                         /\ ~IntegerLike(DeclaredDims(j)[d])
                         /\ HasName(fn.arguments, DeclaredDims(j)[d].name)}} :
           j \in {a \in 1 .. Len(fn.sig) : fn.sig[a].logical_type = "RuntimeArray"}}

\* C28: the list preprocess returns for a partial call of arrays has one
\* entry per declared parameter and no entry is None; the AffineArray and
\* the non-Output RuntimeArray positions hold the caller's arrays in the
\* caller's order; the value of each dimension sits at the index of the
\* Element of that name, before or after its array; and when the caller
\* passed one array per array parameter, the array passed for an Output
\* runtime array is skipped, so that the arrays after it still land on
\* their own parameters.
C28_ExpansionPlacesArguments ==
    FnExpanded =>
        /\ Len(fn.args_) = Len(fn.sig)
        /\ \A j \in 1 .. Len(fn.args_) : fn.args_[j] # NoneEntry
        /\ Len(SuppliedPositions) <= Len(fn.args)
        /\ \A p \in 1 .. Len(SuppliedPositions) :
              LET j == SuppliedPositions[p]
              IN  IF IsOutputRuntimeArray(fn.sig[j])
                  THEN fn.args_[j].isav /\ fn.args_[j].info = j
                  ELSE fn.args_[j] = fn.args[p]
        /\ \A name \in DimensionNames :
              LET i_dim == NameToIndex(fn.arguments, name)
              IN  /\ fn.sig[i_dim].logical_type = "Element"
                  /\ fn.args_[i_dim].isav
                  /\ fn.args_[i_dim].info = i_dim
                  /\ (fn.sig[i_dim].usage = "Input" /\ Bindings(name) # {}) =>
                        fn.args_[i_dim].v.val
                            = fn.args_[FirstBinding(name)[1]].v.shape[FirstBinding(name)[2]]

\* N precedes its array R and M follows its array S; the caller passed an
\* array for the Output S and the array for R: S's array is skipped and R's
\* lands on the third parameter, N is 5 at the first.
C28_Witness ==
    /\ fn.pc = "preprocessed"
    /\ fn.sig = <<P_N("Input"), P_S, P_R("Input"), P_M>>
    /\ fn.args = <<Raw(NdArray(<<2, 2>>, <<8, 4>>, "float32")),
                   Raw(NdArray(<<5, 100>>, <<400, 4>>, "float32"))>>
    /\ fn.args_[1].isav /\ fn.args_[1].v.val = 5
    /\ fn.args_[2].isav
    /\ fn.args_[3] = fn.args[2]
    /\ fn.args_[4].isav

(***************************************************************************)
(* Termination of the batch loop of benchmark.                             *)
(***************************************************************************)
\* benchmark is past its batch loop, which it entered.
BenchmarkPastLoop ==
    /\ mode = "benchmark"
    /\ pc \in {"cleanup_batch", "cleanup_runtime", "done"}
    /\ \E j \in PhaseIdx("init_batch") : trace[j].err = NoErr

\* Every run_batch so far returned a strictly positive elapsed time.
AllRunsPositive ==
    \A j \in PhaseIdx("run_batch") : trace[j].err = NoErr /\ trace[j].value > 0

\* C30: benchmark runs run_batch at least once whatever min_time_in_sec and
\* batch_size are; with iters >= 1, while every run_batch returns a strictly
\* positive elapsed time the batch loop is eventually left and the call
\* reaches its end; and a call that ended this way, its cleanup phases not
\* raising, ran cleanup_batch then cleanup_runtime after the last run_batch
\* and returned.
C30_BenchmarkTerminates ==
    /\ [](BenchmarkPastLoop => PhaseCount("run_batch") >= 1)
    /\ (mode = "benchmark" /\ pc = "run_batch" /\ params.iters >= 1)
          ~> (pc = "done" \/ ~AllRunsPositive)
    /\ []((/\ pc = "done" /\ mode = "benchmark" /\ params.iters >= 1
           /\ NoPhaseRaised /\ AllRunsPositive /\ PhaseCount("run_batch") >= 1)
          => /\ result.kind = "return"
             /\ SubSeq(PhaseSeq, Len(trace) - 1, Len(trace))
                   = <<"cleanup_batch", "cleanup_runtime">>
             /\ PhaseSeq[Len(trace) - 2] = "run_batch"
             /\ PhaseCount("cleanup_batch") = 1
             /\ PhaseCount("cleanup_runtime") = 1)

\* One second and one batch asked for: the first batch of 500 ms does not
\* reach the minimum time, the second does, and the call returns.
C30_Witness ==
    /\ pc = "done" /\ mode = "benchmark" /\ result.kind = "return"
    /\ params = [iters |-> 1, batch_size |-> 1, min_time_in_sec |-> 1]
    /\ result.timings = <<500, 500>>
    /\ PhaseSeq = <<"init_runtime", "init_batch", "run_batch", "run_batch",
                    "cleanup_batch", "cleanup_runtime">>

====
